---- MODULE Spec2Model ----
(***************************************************************************)
(* State-machine model of the flock-server presence core.                  *)
(*                                                                         *)
(* The repository holds two variants of the server:                        *)
(*   src/unnamed/part_000  sessions with a room-scoped alias               *)
(*                         (flockmodUsername), a room directory, a colour  *)
(*                         cache and debounced room broadcasts;            *)
(*   src/server.js         identity-only rooms, a users file and a         *)
(*                         minimum-interval throttle on room broadcasts.   *)
(* Both are modelled; the variable `program` says which one runs.  The     *)
(* connection handler and the rate limiter are the same code in both.      *)
(* Every handler is one atomic action: Node runs each callback to          *)
(* completion on one thread.                                               *)
(***************************************************************************)
EXTENDS Integers, Sequences, FiniteSets, TLC

(***************************************************************************)
(* Program constants.                                                      *)
(***************************************************************************)
MAX_MESSAGES_PER_MINUTE == 200
MAX_CONNECTIONS == 200
WINDOW_MS == 60000
MSG_LIMIT == 1000
OVERLOAD_STATUS == 1013
DEFAULT_COLOR == "rgb(255, 255, 255)"
SENTINEL_ROOM == "NaN"
\* src/server.js only.
THROTTLE_MS == 2000
PONG_REFRESH_MS == 10000
REPUSH_DELAY_MS == 1000
PONG_REPUSH_DELAY_MS == 500

(***************************************************************************)
(* Bounds of the model.                                                    *)
(***************************************************************************)
NumConns == 2

Conns == 1 .. NumConns
Users == {"alice", "bob"}
\* Room and alias names are arbitrary client strings.  The two rooms and the
\* two aliases are chosen so that two different (room, alias) pairs have the
\* same directory key "r:x:y".
Rooms == {"r", "r:x"}
Aliases == {"y", "x:y"}
Colors == {DEFAULT_COLOR, "red"}

(***************************************************************************)
(* JavaScript values.  Null stands for null, undefined and a missing       *)
(* field; NonString for a truthy value that is not a string.               *)
(***************************************************************************)
Null == "<null>"
NonString == "<non-string>"
Truthy(v) == v # Null /\ v # ""
IsString(v) == v # Null /\ v # NonString

(***************************************************************************)
(* A JavaScript Map is a function whose domain is the set of its keys.     *)
(***************************************************************************)
EmptyMap == [k \in {} |-> Null]
Has(m, k) == k \in DOMAIN m
Get(m, k) == IF k \in DOMAIN m THEN m[k] ELSE Null
MapSet(m, k, v) == [x \in (DOMAIN m) \cup {k} |-> IF x = k THEN v ELSE m[x]]
MapDelete(m, k) == [x \in (DOMAIN m) \ {k} |-> m[x]]

Min(a, b) == IF a < b THEN a ELSE b

Programs == {"part_000", "server.js"}

VARIABLES
  program,            \* which of the two servers runs
  connState,          \* connection -> "new" | "rejected" | "open" | "terminated" | "closed"
  activeConnections,  \* the counter of accepted connections
  idleConnections,    \* number of further open connections that never send a message
  isAlive,            \* Map connection -> ws.isAlive, of the sockets of wss.clients
  messageCounter,     \* Map connectionId -> messages counted in the window
  windowElapsed,      \* Map connectionId -> Date.now() - messageCounterStartTime
  sessions,           \* Map connectionId -> [username, flockmodUsername, room]
  userColors,         \* Map username -> colour (the cache)
  roomUsers,          \* Map roomName -> set of flockmod usernames
  usernameToProfile,  \* Map "room:alias" -> username
  connectionIds,      \* Map username -> set of connectionIds
  pendingBroadcasts,  \* rooms with a scheduled, not yet fired broadcast timer
  debounceTimers,     \* Map roomName -> number of broadcast timers set and not yet run
  profilesFile,       \* content of PROFILES_FILE: username -> stored colour
  lastWritten,        \* history: username -> colour of its last setPreference
  \* src/server.js
  currentUser,            \* connection -> ws.currentUser
  connectionRooms,        \* Map connectionId -> room
  userConnections,        \* Map username -> set of connectionIds, in insertion order
  clients,                \* Map username -> connection
  lastRoomBroadcastTime,  \* Map room -> Date.now() - time of its last broadcast
  usersFile,              \* content of USERS_FILE: username -> preferences.color
  timers                  \* pending setTimeout callbacks: [room, delay left]

connVars == <<connState, activeConnections, idleConnections, isAlive>>
rateVars == <<messageCounter, windowElapsed>>
coreVars == <<sessions, userColors, roomUsers, usernameToProfile, connectionIds,
              pendingBroadcasts, debounceTimers, profilesFile>>
serverVars == <<currentUser, connectionRooms, userConnections, clients,
                lastRoomBroadcastTime, usersFile, timers>>
vars == <<program, connVars, rateVars, coreVars, lastWritten, serverVars>>

(***************************************************************************)
(* The memory a handler works on: the module-level maps, the set of        *)
(* sockets whose readyState is OPEN, and the frames the handler has        *)
(* written to sockets so far (its output: no state of the server).         *)
(***************************************************************************)
Memory(open) ==
  [sessions |-> sessions, userColors |-> userColors, roomUsers |-> roomUsers,
   usernameToProfile |-> usernameToProfile, connectionIds |-> connectionIds,
   pendingBroadcasts |-> pendingBroadcasts, debounceTimers |-> debounceTimers,
   profilesFile |-> profilesFile,
   open |-> open, sent |-> {}]

Commit(m) ==
  /\ sessions' = m.sessions
  /\ userColors' = m.userColors
  /\ roomUsers' = m.roomUsers
  /\ usernameToProfile' = m.usernameToProfile
  /\ connectionIds' = m.connectionIds
  /\ pendingBroadcasts' = m.pendingBroadcasts
  /\ debounceTimers' = m.debounceTimers
  /\ profilesFile' = m.profilesFile

OpenConns == {c \in Conns : connState[c] = "open"}

Send(m, frame) == [m EXCEPT !.sent = @ \cup {frame}]

(***************************************************************************)
(* Preference store.  io.rd / io.wr say whether the reads / the write of   *)
(* PROFILES_FILE made while handling one event succeed.                    *)
(***************************************************************************)
IoOk == [rd |-> TRUE, wr |-> TRUE]
IoAny == [rd : BOOLEAN, wr : BOOLEAN]

loadProfilePreferences(m, io) == IF io.rd THEN m.profilesFile ELSE EmptyMap

saveProfilePreferences(m, io, preferences) ==
  IF io.wr THEN [m EXCEPT !.profilesFile = preferences] ELSE m

\* The colour of getProfilePreference(username), after `.color || default`.
getProfilePreference(m, io, username) ==
  LET preferences == loadProfilePreferences(m, io)
  IN IF Has(preferences, username) /\ Truthy(preferences[username])
       THEN preferences[username] ELSE DEFAULT_COLOR

saveProfilePreference(m, io, username, value) ==
  LET preferences == MapSet(loadProfilePreferences(m, io), username, value)
      m1 == saveProfilePreferences(m, io, preferences)
  IN [m1 EXCEPT !.userColors = MapSet(@, username, value)]

initProfileColors(file) ==
  [u \in {x \in DOMAIN file : Truthy(file[x])} |-> file[u]]

(***************************************************************************)
(* Room directory.                                                         *)
(***************************************************************************)
getRoomUserKey(roomName, username) == roomName \o ":" \o username

ValidRoom(roomName) == Truthy(roomName) /\ roomName # SENTINEL_ROOM

\* The broadcast timers of the room that were set and have not run.
TimersSet(m, roomName) ==
  IF Has(m.debounceTimers, roomName) THEN m.debounceTimers[roomName] ELSE 0

\* A faulty scheduleRoomBroadcast, which sets a timer whether or not one is
\* pending.
scheduleRoomBroadcast_Unguarded(m, roomName) ==
  IF ~ValidRoom(roomName) THEN m
  ELSE [m EXCEPT !.pendingBroadcasts = @ \cup {roomName},
                 !.debounceTimers = MapSet(@, roomName, TimersSet(m, roomName) + 1)]

scheduleRoomBroadcast(m, roomName) ==
  IF ~ValidRoom(roomName) THEN m
  ELSE IF roomName \in m.pendingBroadcasts THEN m
  ELSE [m EXCEPT !.pendingBroadcasts = @ \cup {roomName},
                 !.debounceTimers = MapSet(@, roomName, TimersSet(m, roomName) + 1)]

\* The memory in which the callback of a broadcast timer of the room runs:
\* the timer is spent.
TimerSpent(m, roomName) ==
  [m EXCEPT !.debounceTimers =
              IF TimersSet(m, roomName) = 1 THEN MapDelete(@, roomName)
              ELSE MapSet(@, roomName, TimersSet(m, roomName) - 1)]

addUserToRoom(m, roomName, flockmodUsername, socketModUsername) ==
  IF ~ValidRoom(roomName) \/ ~Truthy(flockmodUsername) THEN m
  ELSE LET users == IF Has(m.roomUsers, roomName) THEN m.roomUsers[roomName] ELSE {}
           m1 == [m EXCEPT
                    !.roomUsers = MapSet(@, roomName, users \cup {flockmodUsername}),
                    !.usernameToProfile =
                       MapSet(@, getRoomUserKey(roomName, flockmodUsername),
                              socketModUsername)]
       IN scheduleRoomBroadcast(m1, roomName)

removeUserFromRoom(m, roomName, flockmodUsername) ==
  IF ~ValidRoom(roomName) \/ ~Truthy(flockmodUsername) THEN m
  ELSE IF ~Has(m.roomUsers, roomName) THEN m
  ELSE LET users == m.roomUsers[roomName] \ {flockmodUsername}
       IN [m EXCEPT
             !.roomUsers = IF users = {} THEN MapDelete(@, roomName)
                           ELSE MapSet(@, roomName, users),
             !.usernameToProfile =
                MapDelete(@, getRoomUserKey(roomName, flockmodUsername))]

\* A faulty getUserColor: a miss caches the default colour without reading
\* the file.
getUserColorCache_NoLoad(m, io, username) ==
  IF Has(m.userColors, username) THEN m.userColors
  ELSE MapSet(m.userColors, username, DEFAULT_COLOR)

\* The cache after getUserColor(username).
getUserColorCache(m, io, username) ==
  IF Has(m.userColors, username) THEN m.userColors
  ELSE MapSet(m.userColors, username, getProfilePreference(m, io, username))

getUserColor(m, io, username) == getUserColorCache(m, io, username)[username]

getUsersInRoom(m, roomName) ==
  IF Has(m.roomUsers, roomName) THEN m.roomUsers[roomName] ELSE {}

\* The aliases of the room whose key resolves to an owner.
ResolvedAliases(m, roomName) ==
  {a \in getUsersInRoom(m, roomName) :
     Truthy(Get(m.usernameToProfile, getRoomUserKey(roomName, a)))}

\* buildRoomColorData: the two maps of the snapshot.
buildRoomColorData(m, io, roomName) ==
  LET owner(a) == m.usernameToProfile[getRoomUserKey(roomName, a)]
  IN [colorData |-> [a \in ResolvedAliases(m, roomName) |-> getUserColor(m, io, owner(a))],
      profileMap |-> [a \in ResolvedAliases(m, roomName) |-> owner(a)]]

\* buildRoomColorData's effect on the cache: every resolved owner is cached.
buildRoomColorDataCache(m, io, roomName) ==
  LET owners == {m.usernameToProfile[getRoomUserKey(roomName, a)] :
                   a \in ResolvedAliases(m, roomName)}
  IN [u \in (DOMAIN m.userColors) \cup owners |-> getUserColor(m, io, u)]

RoomColorSync(m, io, to, via, roomName) ==
  LET data == buildRoomColorData(m, io, roomName)
  IN [type |-> "roomColorSync", to |-> to, via |-> via, room |-> roomName,
      colorData |-> data.colorData, profileMap |-> data.profileMap]

\* A faulty audience: every OPEN client with a session, whatever its room.
Audience_AnyRoom(m, roomName) ==
  {c \in m.open : Has(m.sessions, c)}

\* The OPEN clients whose session is in the room.
Audience(m, roomName) ==
  {c \in m.open : Has(m.sessions, c) /\ m.sessions[c].room = roomName}

sendRoomColorData(m, io, ws, roomName) ==
  IF ~ValidRoom(roomName) THEN m
  ELSE IF ~Has(m.sessions, ws) THEN m
  ELSE LET m1 == [m EXCEPT !.userColors = buildRoomColorDataCache(m, io, roomName)]
       IN IF ws \in m.open
            THEN Send(m1, RoomColorSync(m, io, ws, "send", roomName))
            ELSE m1

broadcastRoomColorData(m, io, roomName) ==
  IF ~ValidRoom(roomName) THEN m
  ELSE [m EXCEPT
          !.userColors = buildRoomColorDataCache(m, io, roomName),
          !.sent = @ \cup {RoomColorSync(m, io, c, "broadcast", roomName) :
                             c \in Audience(m, roomName)}]

broadcastUserLeftRoom(m, flockmodUsername, roomName) ==
  IF ~ValidRoom(roomName) \/ ~Truthy(flockmodUsername) THEN m
  ELSE [m EXCEPT
          !.sent = @ \cup {[type |-> "userLeftRoom", to |-> c, via |-> "broadcast",
                            username |-> flockmodUsername] :
                             c \in Audience(m, roomName)}]

sendError(m, ws, message) ==
  Send(m, [type |-> "error", to |-> ws, via |-> "send", message |-> message])

(***************************************************************************)
(* Message handlers.  `data` is the decoded JSON object; a field the       *)
(* client left out is Null.                                                *)
(***************************************************************************)
Data(type, username, flockmodUsername, room, key, value) ==
  [type |-> type, username |-> username, flockmodUsername |-> flockmodUsername,
   room |-> room, key |-> key, value |-> value]

NewSession(username) ==
  [username |-> username, flockmodUsername |-> Null, room |-> Null]

\* A faulty handleLogin, which does not enter the connection into the
\* identity's connection-set.
handleLogin_Unregistered(m, io, ws, data) ==
  LET username == data.username
      color == getProfilePreference(m, io, username)
  IN IF ~Truthy(username) \/ ~IsString(username)
       THEN sendError(m, ws, "Username is required")
       ELSE Send([m EXCEPT
                    !.userColors = MapSet(@, username, color),
                    !.sessions = MapSet(@, ws, NewSession(username))],
                 [type |-> "loginSuccess", to |-> ws, via |-> "send",
                  username |-> username, color |-> color])

handleLogin(m, io, ws, data) ==
  LET username == data.username
      color == getProfilePreference(m, io, username)
      ids == IF Has(m.connectionIds, username) THEN m.connectionIds[username] ELSE {}
  IN IF ~Truthy(username) \/ ~IsString(username)
       THEN sendError(m, ws, "Username is required")
       ELSE Send([m EXCEPT
                    !.userColors = MapSet(@, username, color),
                    !.sessions = MapSet(@, ws, NewSession(username)),
                    !.connectionIds = MapSet(@, username, ids \cup {ws})],
                 [type |-> "loginSuccess", to |-> ws, via |-> "send",
                  username |-> username, color |-> color])

handleFlockmodUsernameChange(m, io, ws, newFlockmodUsername) ==
  LET session == m.sessions[ws]
      oldFlockmodUsername == session.flockmodUsername
      currentRoom == session.room
      m1 == IF Truthy(currentRoom) /\ Truthy(oldFlockmodUsername)
              THEN broadcastUserLeftRoom(
                     removeUserFromRoom(m, currentRoom, oldFlockmodUsername),
                     oldFlockmodUsername, currentRoom)
              ELSE m
      m2 == [m1 EXCEPT !.sessions[ws].flockmodUsername = newFlockmodUsername]
  IN IF Truthy(currentRoom) /\ Truthy(newFlockmodUsername)
       THEN broadcastRoomColorData(
              addUserToRoom(m2, currentRoom, newFlockmodUsername, session.username),
              io, currentRoom)
       ELSE m2

handleRoomChange(m, io, ws, newRoom) ==
  LET session == m.sessions[ws]
      oldRoom == session.room
      flockmodUsername == session.flockmodUsername
      m1 == IF Truthy(oldRoom) /\ Truthy(flockmodUsername)
              THEN broadcastRoomColorData(
                     broadcastUserLeftRoom(
                       removeUserFromRoom(m, oldRoom, flockmodUsername),
                       flockmodUsername, oldRoom),
                     io, oldRoom)
              ELSE m
      m2 == [m1 EXCEPT !.sessions[ws].room = newRoom]
  IN IF Truthy(newRoom) /\ Truthy(flockmodUsername)
       THEN broadcastRoomColorData(
              sendRoomColorData(
                addUserToRoom(m2, newRoom, flockmodUsername, session.username),
                io, ws, newRoom),
              io, newRoom)
       ELSE m2

\* A faulty handlePong, which reconciles the alias and not the room.
handlePong_IgnoresRoom(m, io, ws, data) ==
  IF ~Truthy(data.username) THEN m
  ELSE IF ~Has(m.sessions, ws) THEN handleLogin(m, io, ws, data)
  ELSE IF Truthy(data.flockmodUsername)
          /\ data.flockmodUsername # m.sessions[ws].flockmodUsername
    THEN handleFlockmodUsernameChange(m, io, ws, data.flockmodUsername)
  ELSE m

handlePong(m, io, ws, data) ==
  LET username == data.username
      flockmodUsername == data.flockmodUsername
      room == data.room
      m1 == IF Has(m.userColors, username) THEN m
            ELSE [m EXCEPT !.userColors =
                    MapSet(@, username, getProfilePreference(m, io, username))]
      m2 == IF Truthy(flockmodUsername)
               /\ flockmodUsername # m1.sessions[ws].flockmodUsername
              THEN handleFlockmodUsernameChange(m1, io, ws, flockmodUsername)
              ELSE m1
      session == m2.sessions[ws]
  IN IF ~Truthy(username) THEN m
     ELSE IF ~Has(m.sessions, ws)
       THEN handleLogin(m, io, ws, [data EXCEPT !.username = username])
     ELSE IF Truthy(room) /\ room # session.room
       THEN handleRoomChange(m2, io, ws, room)
     ELSE IF Truthy(room) /\ Truthy(session.room) /\ Truthy(flockmodUsername)
             /\ Truthy(session.flockmodUsername)
       THEN sendRoomColorData(
              addUserToRoom(m2, session.room, session.flockmodUsername, session.username),
              io, ws, session.room)
     ELSE m2

handleUpdateRoomStatus(m, io, ws, data) ==
  LET room == data.room
      flockmodUsername == data.flockmodUsername
      m1 == IF Truthy(flockmodUsername)
               /\ flockmodUsername # m.sessions[ws].flockmodUsername
              THEN handleFlockmodUsernameChange(m, io, ws, flockmodUsername)
              ELSE m
  IN IF ~Truthy(room) \/ ~IsString(room) THEN sendError(m, ws, "Invalid room name")
     ELSE IF ~Has(m.sessions, ws) THEN sendError(m, ws, "Not logged in")
     ELSE IF room # m1.sessions[ws].room THEN handleRoomChange(m1, io, ws, room)
     ELSE sendRoomColorData(m1, io, ws, room)

\* The rooms updateUserSessions rebroadcasts.
SessionRooms(m, username) ==
  {m.sessions[c].room : c \in {x \in m.open :
      /\ Has(m.sessions, x)
      /\ m.sessions[x].username = username
      /\ Truthy(m.sessions[x].room)
      /\ Truthy(m.sessions[x].flockmodUsername)}}

RECURSIVE BroadcastRooms(_, _, _)
BroadcastRooms(m, io, rooms) ==
  IF rooms = {} THEN m
  ELSE LET r == CHOOSE x \in rooms : TRUE
       IN BroadcastRooms(broadcastRoomColorData(m, io, r), io, rooms \ {r})

updateUserSessions(m, io, username) ==
  BroadcastRooms(m, io, SessionRooms(m, username))

handleSetPreference(m, io, ws, data) ==
  LET username == m.sessions[ws].username
      m1 == updateUserSessions(saveProfilePreference(m, io, username, data.value),
                               io, username)
  IN IF data.key # "color" THEN sendError(m, ws, "Only color preference is supported")
     ELSE IF ~Has(m.sessions, ws) THEN sendError(m, ws, "Not logged in")
     ELSE IF ~Truthy(username)
       THEN sendError(m, ws, "No username associated with this session")
     ELSE IF Truthy(m1.sessions[ws].room)
       THEN sendRoomColorData(m1, io, ws, m1.sessions[ws].room)
     ELSE m1

Dispatch(m, io, ws, data) ==
  CASE data.type = "login" -> handleLogin(m, io, ws, data)
    [] data.type = "pong" -> handlePong(m, io, ws, data)
    [] data.type = "updateRoomStatus" -> handleUpdateRoomStatus(m, io, ws, data)
    [] data.type = "setPreference" -> handleSetPreference(m, io, ws, data)
    [] OTHER -> m

(***************************************************************************)
(* src/server.js.  A room holds identities, there are no aliases, and the  *)
(* colours live in the users file only.  The file is readable and          *)
(* writable: the catch branches of loadUsers and saveUsers are not taken.  *)
(* A user record is modelled by its preferences.color, Null when the       *)
(* preferences hold no colour.                                             *)
(***************************************************************************)
ServerMemory(open) ==
  [currentUser |-> currentUser, connectionRooms |-> connectionRooms,
   userConnections |-> userConnections, clients |-> clients,
   lastRoomBroadcastTime |-> lastRoomBroadcastTime, usersFile |-> usersFile,
   timers |-> timers, open |-> open, sent |-> {}]

ServerCommit(m) ==
  /\ currentUser' = m.currentUser
  /\ connectionRooms' = m.connectionRooms
  /\ userConnections' = m.userConnections
  /\ clients' = m.clients
  /\ lastRoomBroadcastTime' = m.lastRoomBroadcastTime
  /\ usersFile' = m.usersFile
  /\ timers' = m.timers

\* userConnections: getUsersInRoom depends on the Map's iteration order, so
\* the Map is the sequence of its entries [username, connections] in
\* insertion order.
HasUser(uc, username) == \E i \in 1 .. Len(uc) : uc[i].username = username

UserIndex(uc, username) == CHOOSE i \in 1 .. Len(uc) : uc[i].username = username

ConnectionsOf(uc, username) ==
  IF HasUser(uc, username) THEN uc[UserIndex(uc, username)].connections ELSE {}

SetConnections(uc, username, connections) ==
  IF HasUser(uc, username)
    THEN [uc EXCEPT ![UserIndex(uc, username)].connections = connections]
    ELSE Append(uc, [username |-> username, connections |-> connections])

DeleteUser(uc, username) ==
  SelectSeq(uc, LAMBDA entry : entry.username # username)

\* connections.add(connectionId), after the set was created if missing.
AddConnection(uc, username, connId) ==
  SetConnections(uc, username, ConnectionsOf(uc, username) \cup {connId})

\* connections.delete(connectionId), and the entry with it when it empties.
DropConnection(uc, username, connId) ==
  IF ~HasUser(uc, username) THEN uc
  ELSE IF ConnectionsOf(uc, username) \ {connId} = {} THEN DeleteUser(uc, username)
  ELSE SetConnections(uc, username, ConnectionsOf(uc, username) \ {connId})

loadUsers(m) == m.usersFile

saveUsers(m, users) == [m EXCEPT !.usersFile = users]

\* The `data` of updateUser: none, or preferences with a colour.
NoData == [given |-> FALSE, color |-> Null]
Preferences(color) == [given |-> TRUE, color |-> color]

updateUser(m, username, data) ==
  LET users == loadUsers(m)
      created == IF Has(users, username) THEN users
                 ELSE MapSet(users, username, DEFAULT_COLOR)
      merged == IF data.given THEN MapSet(created, username, data.color) ELSE created
  IN saveUsers(m, merged)

\* The first username, in iteration order, whose connections hold connId.
FirstUserOf(uc, connId) ==
  LET found == {i \in 1 .. Len(uc) : connId \in uc[i].connections}
  IN IF found = {} THEN Null
     ELSE uc[CHOOSE i \in found : \A j \in found : i <= j].username

server_getUsersInRoom(m, roomName) ==
  {FirstUserOf(m.userConnections, connId) :
     connId \in {x \in DOMAIN m.connectionRooms : m.connectionRooms[x] = roomName}}
    \ {Null}

\* users[username]?.preferences?.color, or the default colour.
ColorOrDefault(users, username) ==
  IF Has(users, username) /\ Truthy(users[username]) THEN users[username]
  ELSE DEFAULT_COLOR

\* The users file after the loop of sendRoomColorData: every user of the
\* room without a colour has been given the default colour.
DefaultedUsers(m, roomName) ==
  LET users == loadUsers(m)
      inRoom == server_getUsersInRoom(m, roomName)
  IN [u \in (DOMAIN users) \cup inRoom |->
        IF u \in inRoom THEN ColorOrDefault(users, u) ELSE users[u]]

ServerRoomColorSync(m, to, via, roomName) ==
  [type |-> "roomColorSync", to |-> to, via |-> via, room |-> roomName,
   colorData |-> [u \in server_getUsersInRoom(m, roomName) |->
                    ColorOrDefault(loadUsers(m), u)]]

server_sendRoomColorData(m, ws, roomName) ==
  IF ~ValidRoom(roomName) THEN m
  ELSE LET m1 == saveUsers(m, DefaultedUsers(m, roomName))
       IN IF ws \in m.open
            THEN Send(m1, ServerRoomColorSync(m, ws, "send", roomName))
            ELSE m1

\* now - lastBroadcast < 2000.  A room without an entry was never broadcast
\* (lastBroadcast is 0).
Throttled(m, roomName) ==
  /\ Has(m.lastRoomBroadcastTime, roomName)
  /\ m.lastRoomBroadcastTime[roomName] < THROTTLE_MS

ServerAudience(m, roomName) ==
  {c \in m.open : Truthy(Get(m.currentUser, c)) /\ Get(m.connectionRooms, c) = roomName}

server_broadcastRoomColorData(m, roomName) ==
  IF ~ValidRoom(roomName) THEN m
  ELSE IF Throttled(m, roomName) THEN m
  ELSE LET m1 == [m EXCEPT !.lastRoomBroadcastTime = MapSet(@, roomName, 0)]
       IN IF ServerAudience(m, roomName) = {} THEN m1
          ELSE [saveUsers(m1, DefaultedUsers(m, roomName)) EXCEPT
                  !.sent = @ \cup {ServerRoomColorSync(m, c, "broadcast", roomName) :
                                     c \in ServerAudience(m, roomName)}]

server_broadcastUserLeftRoom(m, username, room) ==
  IF ~ValidRoom(room) THEN m
  ELSE [m EXCEPT
          !.sent = @ \cup {[type |-> "userLeftRoom", to |-> c, via |-> "broadcast",
                            username |-> username] :
                             c \in {x \in m.open :
                                      /\ Get(m.currentUser, x) # username
                                      /\ Get(m.connectionRooms, x) = room}}]

\* A faulty handleUpdateRoomStatus, which does not ask for an identity.
server_handleUpdateRoomStatus_Anonymous(m, ws, data) ==
  LET user == Get(m.currentUser, ws)
      room == data.room
      oldRoom == Get(m.connectionRooms, ws)
      m1 == [m EXCEPT !.connectionRooms = MapSet(@, ws, room),
                      !.userConnections = AddConnection(@, user, ws)]
      userStillInRoom ==
        \E connId \in ConnectionsOf(m1.userConnections, user) \ {ws} :
           Get(m1.connectionRooms, connId) = oldRoom
      m2 == IF Truthy(oldRoom) /\ ~userStillInRoom
              THEN server_broadcastUserLeftRoom(m1, user, oldRoom)
              ELSE m1
  IN IF ~IsString(room) THEN m
     ELSE IF oldRoom # room
       THEN server_broadcastRoomColorData(server_sendRoomColorData(m2, ws, room), room)
     ELSE server_sendRoomColorData(m, ws, room)

server_handleUpdateRoomStatus(m, ws, data) ==
  LET user == Get(m.currentUser, ws)
      room == data.room
      oldRoom == Get(m.connectionRooms, ws)
      m1 == [m EXCEPT !.connectionRooms = MapSet(@, ws, room),
                      !.userConnections = AddConnection(@, user, ws)]
      userStillInRoom ==
        \E connId \in ConnectionsOf(m1.userConnections, user) \ {ws} :
           Get(m1.connectionRooms, connId) = oldRoom
      m2 == IF Truthy(oldRoom) /\ ~userStillInRoom
              THEN server_broadcastUserLeftRoom(m1, user, oldRoom)
              ELSE m1
  IN IF ~Truthy(user) THEN m
     ELSE IF ~IsString(room) THEN m
     ELSE IF oldRoom # room
       THEN server_broadcastRoomColorData(server_sendRoomColorData(m2, ws, room), room)
     ELSE server_sendRoomColorData(m, ws, room)

\* String.prototype.trim on the identities of the model: " " is the one
\* that is made of whitespace.
Trim(s) == IF s = " " THEN "" ELSE s

server_handleLogin(m, ws, data) ==
  LET username == data.username
      m1 == updateUser(
              [m EXCEPT !.currentUser = MapSet(@, ws, username),
                        !.clients = MapSet(@, username, ws),
                        !.userConnections = AddConnection(@, username, ws)],
              username, NoData)
  IN IF ~Truthy(username) \/ ~IsString(username) \/ Trim(username) = ""
       THEN sendError(m, ws, "Invalid username")
       ELSE Send(m1, [type |-> "loginSuccess", to |-> ws, via |-> "send",
                      username |-> username, color |-> m1.usersFile[username]])

\* The rooms of the connections of the identity.
UserRooms(m, username) ==
  {m.connectionRooms[c] :
     c \in {x \in ConnectionsOf(m.userConnections, username) :
              Truthy(Get(m.connectionRooms, x))}}

SetTimeout(m, roomName, delay) ==
  [m EXCEPT !.timers = @ \cup {[room |-> roomName, delay |-> delay]}]

\* The loop of handleSetPreference over the rooms: the timestamp of the
\* room is reset (to 0: as if never broadcast), the room is broadcast and a
\* second broadcast is scheduled.
RECURSIVE ForceBroadcasts(_, _)
ForceBroadcasts(m, rooms) ==
  IF rooms = {} THEN m
  ELSE LET room == CHOOSE x \in rooms : TRUE
           m1 == [m EXCEPT !.lastRoomBroadcastTime = MapDelete(@, room)]
       IN ForceBroadcasts(
            SetTimeout(server_broadcastRoomColorData(m1, room), room, REPUSH_DELAY_MS),
            rooms \ {room})

server_handleSetPreference(m, ws, data) ==
  LET user == Get(m.currentUser, ws)
  IN IF ~Truthy(user) THEN sendError(m, ws, "Not logged in")
     ELSE IF data.key # "color"
       THEN sendError(m, ws, "Only color preference is supported")
     ELSE IF ~Has(loadUsers(m), user) THEN sendError(m, ws, "User not found")
     ELSE ForceBroadcasts(updateUser(m, user, Preferences(data.value)),
                          UserRooms(m, user))

server_handlePong(m, ws, data) ==
  LET username == data.username
      room == data.room
      old == Get(m.currentUser, ws)
      m1 == IF Has(loadUsers(m), old)
              THEN updateUser(m, username, Preferences(loadUsers(m)[old]))
              ELSE m
      m2 == IF username # old
              THEN [m1 EXCEPT
                      !.userConnections =
                         AddConnection(DropConnection(@, old, ws), username, ws),
                      !.clients = MapSet(@, username, ws),
                      !.currentUser = MapSet(@, ws, username)]
              ELSE m
  IN IF ~Truthy(username) THEN m
     ELSE IF Truthy(room) /\ room # Get(m2.connectionRooms, ws)
       THEN SetTimeout(
              server_handleUpdateRoomStatus(m2, ws, [data EXCEPT !.room = room]),
              room, PONG_REPUSH_DELAY_MS)
     ELSE IF Truthy(room) /\ ~Has(m2.lastRoomBroadcastTime, room)
       THEN server_broadcastRoomColorData(m2, room)
     ELSE m2

server_Dispatch(m, ws, data) ==
  CASE data.type = "login" -> server_handleLogin(m, ws, data)
    [] data.type = "pong" -> server_handlePong(m, ws, data)
    [] data.type = "updateRoomStatus" -> server_handleUpdateRoomStatus(m, ws, data)
    [] data.type = "setPreference" -> server_handleSetPreference(m, ws, data)
    [] OTHER -> m

\* ws.on('close') of server.js, after the counter was decremented.
server_closeSession(m, ws) ==
  LET user == Get(m.currentUser, ws)
      room == Get(m.connectionRooms, ws)
      m1 == [m EXCEPT
               !.connectionRooms = MapDelete(@, ws),
               !.userConnections = DropConnection(@, user, ws),
               !.clients = IF HasUser(m.userConnections, user)
                              /\ ConnectionsOf(m.userConnections, user) \ {ws} = {}
                            THEN MapDelete(@, user) ELSE @]
      userStillInRoom ==
        \E connId \in ConnectionsOf(m1.userConnections, user) :
           Get(m1.connectionRooms, connId) = room
  IN IF ~Truthy(user) THEN m
     ELSE IF Truthy(room) /\ ~userStillInRoom
       THEN server_broadcastUserLeftRoom(m1, user, room)
     ELSE m1

\* The memory dt later: the timestamps are older and the timers nearer.  A
\* timestamp more than PONG_REFRESH_MS old reads like no timestamp.
Later(m, dt) ==
  LET times == m.lastRoomBroadcastTime
  IN [m EXCEPT
        !.lastRoomBroadcastTime =
           [r \in {x \in DOMAIN times : times[x] + dt <= PONG_REFRESH_MS} |->
              times[r] + dt],
        !.timers = {[room |-> t.room, delay |-> t.delay - dt] : t \in m.timers}]

(***************************************************************************)
(* Initial state: the server has started on a profiles file and has loaded *)
(* it into the cache (initProfileColors); nothing is connected.            *)
(***************************************************************************)
\* alice has no stored preference, bob has stored "red".
InitialFile == [u \in {"bob"} |-> "red"]

InitOf(p) ==
  /\ program = p
  /\ connState = [c \in Conns |-> "new"]
  /\ activeConnections = 0
  /\ idleConnections = 0
  /\ isAlive = EmptyMap
  /\ messageCounter = EmptyMap
  /\ windowElapsed = EmptyMap
  /\ sessions = EmptyMap
  /\ profilesFile = InitialFile
  /\ userColors = initProfileColors(profilesFile)
  /\ roomUsers = EmptyMap
  /\ usernameToProfile = EmptyMap
  /\ connectionIds = EmptyMap
  /\ pendingBroadcasts = {}
  /\ debounceTimers = EmptyMap
  /\ lastWritten = EmptyMap
  /\ currentUser = EmptyMap
  /\ connectionRooms = EmptyMap
  /\ userConnections = <<>>
  /\ clients = EmptyMap
  /\ lastRoomBroadcastTime = EmptyMap
  /\ usersFile = InitialFile
  /\ timers = {}

Init == InitOf("part_000")

InitAny == \E p \in Programs : InitOf(p)

(***************************************************************************)
(* wss.on('connection').  A rejected socket gets no handlers, so its close *)
(* runs no cleanup.                                                        *)
(***************************************************************************)
\* A faulty test, which lets one connection too many in.
AtCapacity_Late == activeConnections > MAX_CONNECTIONS

AtCapacity == activeConnections >= MAX_CONNECTIONS

CloseFrame(to) == [type |-> "close", to |-> to, via |-> "close", code |-> OVERLOAD_STATUS]

\* What the connection handler does with the socket ws.
connection(ws) ==
  IF AtCapacity
    THEN [accepted |-> FALSE, activeConnections |-> activeConnections,
          sent |-> {CloseFrame(ws)}]
    ELSE [accepted |-> TRUE, activeConnections |-> activeConnections + 1,
          sent |-> {}]

Connect(c) ==
  /\ connState[c] = "new"
  /\ connState' = [connState EXCEPT
                     ![c] = IF connection(c).accepted THEN "open" ELSE "rejected"]
  /\ activeConnections' = connection(c).activeConnections
  /\ isAlive' = IF connection(c).accepted THEN MapSet(isAlive, c, TRUE) ELSE isAlive
  /\ UNCHANGED <<program, idleConnections, rateVars, coreVars, lastWritten, serverVars>>

\* A connection that will never send a message: it is counted, not named.
ConnectIdle ==
  /\ activeConnections' = connection(0).activeConnections
  /\ idleConnections' = IF connection(0).accepted THEN idleConnections + 1
                        ELSE idleConnections
  /\ UNCHANGED <<program, connState, isAlive, rateVars, coreVars, lastWritten, serverVars>>

(***************************************************************************)
(* ws.on('close').                                                         *)
(***************************************************************************)
userStillInRoom(m, ws, username, room) ==
  \E connId \in (IF Has(m.connectionIds, username) THEN m.connectionIds[username] ELSE {}) :
     Has(m.sessions, connId) /\ m.sessions[connId].room = room

closeSession(m, io, ws) ==
  LET session == m.sessions[ws]
      username == session.username
      flockmodUsername == session.flockmodUsername
      room == session.room
      ids == m.connectionIds[username] \ {ws}
      m1 == IF Has(m.connectionIds, username)
              THEN [m EXCEPT !.connectionIds =
                      IF ids = {} THEN MapDelete(@, username) ELSE MapSet(@, username, ids)]
              ELSE m
      m2 == IF ~userStillInRoom(m1, ws, username, room) /\ Truthy(room)
               /\ Truthy(flockmodUsername)
              THEN broadcastRoomColorData(
                     broadcastUserLeftRoom(
                       removeUserFromRoom(m1, room, flockmodUsername),
                       flockmodUsername, room),
                     io, room)
              ELSE m1
  IN IF Has(m.sessions, ws)
       THEN [m2 EXCEPT !.sessions = MapDelete(@, ws)]
       ELSE m

\* The memory after the close handler of c: c is no longer OPEN.
OnClose(c, io) == closeSession(Memory(OpenConns \ {c}), io, c)

\* The same for server.js; the socket object, and ws.currentUser with it, is
\* dropped.
server_OnClose(c) ==
  [server_closeSession(ServerMemory(OpenConns \ {c}), c) EXCEPT
     !.currentUser = MapDelete(@, c)]

\* server.js keeps the entries of a closed connection.  They are never read
\* again: the window is kept as one that has run out.
Expire(elapsed, c) ==
  IF Has(elapsed, c) THEN MapSet(elapsed, c, WINDOW_MS + 1) ELSE elapsed

Close(c, io) ==
  /\ connState[c] \in {"open", "terminated"}
  /\ connState' = [connState EXCEPT ![c] = "closed"]
  /\ activeConnections' = activeConnections - 1
  /\ isAlive' = MapDelete(isAlive, c)
  /\ IF program = "part_000"
       THEN /\ Commit(OnClose(c, io))
            /\ messageCounter' = MapDelete(messageCounter, c)
            /\ windowElapsed' = MapDelete(windowElapsed, c)
            /\ UNCHANGED serverVars
       ELSE /\ ServerCommit(server_OnClose(c))
            /\ windowElapsed' = Expire(windowElapsed, c)
            /\ UNCHANGED <<messageCounter, coreVars>>
  /\ UNCHANGED <<program, idleConnections, lastWritten>>

CloseIdle ==
  /\ idleConnections > 0
  /\ idleConnections' = idleConnections - 1
  /\ activeConnections' = activeConnections - 1
  /\ UNCHANGED <<program, connState, isAlive, rateVars, coreVars, lastWritten, serverVars>>

(***************************************************************************)
(* ws.on('message').  A frame is its length, whether it parses as JSON,    *)
(* and the decoded object; dt is the time that passes after the message,   *)
(* before the next event.                                                  *)
(***************************************************************************)
Frame(length, json, data) == [length |-> length, json |-> json, data |-> data]

\* Date.now() - startTime of every window, dt later.  All values above
\* WINDOW_MS behave alike.
Elapse(elapsed, dt) ==
  [c \in DOMAIN elapsed |-> Min(elapsed[c] + dt, WINDOW_MS + 1)]

\* A faulty rate limiter, which terminates on the 200th message already.
RateLimit_Early(c) ==
  IF ~Has(windowElapsed, c) THEN "fresh"
  ELSE IF windowElapsed[c] > WINDOW_MS THEN "fresh"
  ELSE IF messageCounter[c] + 1 >= MAX_MESSAGES_PER_MINUTE THEN "terminate"
  ELSE "counted"

\* The rate limiter: "fresh" opens a window, "counted" counts the message
\* in the current window, "terminate" counts it and terminates.
RateLimit(c) ==
  IF ~Has(windowElapsed, c) THEN "fresh"
  ELSE IF windowElapsed[c] > WINDOW_MS THEN "fresh"
  ELSE IF messageCounter[c] + 1 > MAX_MESSAGES_PER_MINUTE THEN "terminate"
  ELSE "counted"

\* The number the next message of c gets in its window.
NumberInWindow(c) ==
  IF Has(windowElapsed, c) /\ windowElapsed[c] <= WINDOW_MS
    THEN messageCounter[c] + 1 ELSE 1

\* A faulty test, which lets a frame of any length through.
Dispatched_AnyLength(frame) == frame.json

\* Whether a frame that passed the rate limiter reaches the dispatcher.
Dispatched(frame) == frame.length <= MSG_LIMIT /\ frame.json

\* Whether the frame is a preference write the handler carries out.
WritesColor(c, frame) ==
  /\ RateLimit(c) # "terminate" /\ Dispatched(frame)
  /\ frame.data.type = "setPreference" /\ frame.data.key = "color"
  /\ Has(sessions, c) /\ Truthy(sessions[c].username)

\* The memory after the message handler of c has handled the frame.
OnMessage(c, frame, io) ==
  IF RateLimit(c) # "terminate" /\ Dispatched(frame)
    THEN Dispatch(Memory(OpenConns), io, c, frame.data)
    ELSE Memory(OpenConns)

server_OnMessage(c, frame) ==
  IF RateLimit(c) # "terminate" /\ Dispatched(frame)
    THEN server_Dispatch(ServerMemory(OpenConns), c, frame.data)
    ELSE ServerMemory(OpenConns)

Receive(c, frame, io, dt) ==
  /\ connState[c] = "open"
  /\ LET verdict == RateLimit(c)
     IN /\ messageCounter' =
             MapSet(messageCounter, c,
                    IF verdict = "fresh" THEN 1 ELSE messageCounter[c] + 1)
        /\ windowElapsed' =
             Elapse(IF verdict = "fresh" THEN MapSet(windowElapsed, c, 0)
                    ELSE windowElapsed, dt)
        /\ connState' =
             IF verdict = "terminate" THEN [connState EXCEPT ![c] = "terminated"]
             ELSE connState
  /\ IF program = "part_000"
       THEN /\ Commit(OnMessage(c, frame, io))
            /\ lastWritten' =
                 IF WritesColor(c, frame)
                   THEN MapSet(lastWritten, sessions[c].username, frame.data.value)
                   ELSE lastWritten
            /\ UNCHANGED serverVars
       ELSE /\ \A t \in server_OnMessage(c, frame).timers : dt <= t.delay
            /\ ServerCommit(Later(server_OnMessage(c, frame), dt))
            /\ UNCHANGED <<coreVars, lastWritten>>
  /\ UNCHANGED <<program, activeConnections, idleConnections, isAlive>>

(***************************************************************************)
(* Timers: the debounce timer of scheduleRoomBroadcast and the periodic    *)
(* updateColors sweep.                                                     *)
(***************************************************************************)
\* The callback of the timer: the marker is deleted, the room is broadcast.
BroadcastTimer(m, io, roomName) ==
  broadcastRoomColorData(
    [TimerSpent(m, roomName) EXCEPT !.pendingBroadcasts = @ \ {roomName}],
    io, roomName)

FireBroadcast(roomName, io) ==
  /\ Has(debounceTimers, roomName)
  /\ Commit(BroadcastTimer(Memory(OpenConns), io, roomName))
  /\ UNCHANGED <<program, connVars, rateVars, lastWritten, serverVars>>

updateColors(io) ==
  /\ Commit(BroadcastRooms(Memory(OpenConns), io,
                           {r \in DOMAIN roomUsers : roomUsers[r] # {}}))
  /\ UNCHANGED <<program, connVars, rateVars, lastWritten, serverVars>>

(***************************************************************************)
(* Heartbeat: the ping() interval over wss.clients and the 'pong' handler  *)
(* of a socket.  terminate() destroys the socket; its 'close' event, and   *)
(* with it the close handler, follows.                                     *)
(***************************************************************************)
\* A faulty test, which takes every client for silent.
Unanswered_Always(ws) == Has(isAlive, ws)

\* ws.isAlive === false
Unanswered(ws) == Has(isAlive, ws) /\ isAlive[ws] = FALSE

OnPong(c) ==
  /\ connState[c] = "open"
  /\ isAlive' = MapSet(isAlive, c, TRUE)
  /\ UNCHANGED <<program, connState, activeConnections, idleConnections, rateVars,
                 coreVars, lastWritten, serverVars>>

Heartbeat ==
  /\ connState' = [c \in Conns |->
                     IF connState[c] = "open" /\ Unanswered(c) THEN "terminated"
                     ELSE connState[c]]
  /\ isAlive' = [c \in DOMAIN isAlive |-> FALSE]
  /\ UNCHANGED <<program, activeConnections, idleConnections, rateVars, coreVars,
                 lastWritten, serverVars>>

\* A setTimeout callback of server.js runs when its delay has passed: the
\* earliest one first.
FireTimer(t) ==
  /\ t \in timers
  /\ \A other \in timers : t.delay <= other.delay
  /\ ServerCommit(
       server_broadcastRoomColorData(
         Later([ServerMemory(OpenConns) EXCEPT !.timers = @ \ {t}], t.delay),
         t.room))
  /\ windowElapsed' = Elapse(windowElapsed, t.delay)
  /\ UNCHANGED <<program, connVars, messageCounter, coreVars, lastWritten>>

(***************************************************************************)
(* The clients' inputs.  A field that a handler never reads on the path    *)
(* the frame takes is left out.                                            *)
(***************************************************************************)
Absent == Data(Null, Null, Null, Null, Null, Null)

Json(data) == Frame(MSG_LIMIT, TRUE, data)

Login(u) == Json([Absent EXCEPT !.type = "login", !.username = u])

Pong(u, a, r) ==
  Json([Absent EXCEPT !.type = "pong", !.username = u, !.flockmodUsername = a,
                      !.room = r])

UpdateRoomStatus(a, r) ==
  Json([Absent EXCEPT !.type = "updateRoomStatus", !.flockmodUsername = a, !.room = r])

SetPreference(k, v) ==
  Json([Absent EXCEPT !.type = "setPreference", !.key = k, !.value = v])

DroppedFrames ==
  {Frame(MSG_LIMIT + 1, TRUE, Login("alice").data),
   Frame(MSG_LIMIT, FALSE, Absent),
   Json([Absent EXCEPT !.type = "logout"])}

\* Clients that leave more than a window between two messages.
SlowDelays == {WINDOW_MS + 1}

(***************************************************************************)
(* Spec: up to NumConns clients that log in, move between rooms and change *)
(* alias, by updateRoomStatus and by pong, and disconnect; the preference  *)
(* store works.                                                            *)
(***************************************************************************)
RoomFrames ==
  {Login(u) : u \in {"alice", Null}}
    \cup {Pong(u, a, r) : u \in {"alice"}, a \in Aliases \cup {Null}, r \in Rooms \cup {Null}}
    \cup {Pong(Null, Null, Null)}
    \cup {UpdateRoomStatus(a, r) : a \in Aliases \cup {Null}, r \in Rooms}
    \cup {UpdateRoomStatus(Null, Null)}
    \cup DroppedFrames

Next ==
  \/ \E c \in Conns : Connect(c)
  \/ \E c \in Conns, frame \in RoomFrames, dt \in SlowDelays : Receive(c, frame, IoOk, dt)
  \/ \E c \in Conns : Close(c, IoOk)
  \/ \E r \in Rooms : FireBroadcast(r, IoOk)

Spec == Init /\ [][Next]_vars

(***************************************************************************)
(* SpecPref: either server, with two identities that log in, join room     *)
(* "r" (under alias "y"), set their colour and disconnect.  An input is a  *)
(* frame with the outcome of the file accesses its handler makes.  Under   *)
(* part_000 the reads and the write (only setPreference writes) may fail   *)
(* and the clients are slow; under server.js the clients also send in      *)
(* bursts, of at most MaxBurst messages a window, so that a room is        *)
(* broadcast within the minimum interval of its last broadcast.            *)
(***************************************************************************)
MaxBurst == 1

ReadAny == {io \in IoAny : io.wr}

PrefInputs ==
  ({Login(u) : u \in Users} \X ReadAny)
    \cup ({UpdateRoomStatus("y", "r")} \X ReadAny)
    \cup ({SetPreference("color", "red")} \X IoAny)
    \cup ({SetPreference("theme", "dark")} \X {IoOk})

ServerInputs ==
  ({Login(u) : u \in Users \cup {" "}}
     \cup {UpdateRoomStatus(Null, "r"), Pong("alice", Null, Null)}
     \cup {SetPreference("color", "red"), SetPreference("theme", "dark")})
    \X {IoOk}

BurstDelays == {0, WINDOW_MS + 1}

InputsOf(p) == IF p = "part_000" THEN PrefInputs ELSE ServerInputs

DelaysOf(p) == IF p = "part_000" THEN SlowDelays ELSE BurstDelays

NextPref ==
  \/ \E c \in Conns : Connect(c)
  \/ \E c \in Conns, in \in InputsOf(program), dt \in DelaysOf(program) :
       NumberInWindow(c) <= MaxBurst /\ Receive(c, in[1], in[2], dt)
  \/ \E c \in Conns, io \in ReadAny : Close(c, io)
  \/ \E r \in Rooms, io \in ReadAny : FireBroadcast(r, io)
  \/ \E t \in timers : FireTimer(t)

SpecPref == InitAny /\ [][NextPref]_vars

(***************************************************************************)
(* SpecRate: one client that sends frames at any pace, so that its         *)
(* window fills, reaches its boundary and expires.                         *)
(***************************************************************************)
RateFrames ==
  {Login("alice"), Frame(MSG_LIMIT + 1, TRUE, Login("alice").data)}

RateDelays == {0, WINDOW_MS \div 2, WINDOW_MS + 1}

Flooders == {1}

NextRate ==
  \/ \E c \in Conns : Connect(c)
  \/ \E c \in Flooders, frame \in RateFrames, dt \in RateDelays :
       Receive(c, frame, IoOk, dt)
  \/ \E c \in Conns : Close(c, IoOk)

SpecRate == InitAny /\ [][NextRate]_vars

(***************************************************************************)
(* SpecConn: clients that connect and disconnect without sending, up to    *)
(* and beyond the connection ceiling.                                      *)
(***************************************************************************)
NextConn ==
  \/ \E c \in Conns : Connect(c)
  \/ ConnectIdle
  \/ \E c \in Conns : Close(c, IoOk)
  \/ CloseIdle

SpecConn == InitAny /\ [][NextConn]_vars

(***************************************************************************)
(* SpecEdge: either server, with one identity whose clients log in, or     *)
(* only send pongs, and name the rooms "r", "NaN" and "" (with and without *)
(* the alias "y"), before and after they have logged in.                   *)
(***************************************************************************)
EdgeRooms == {"r", SENTINEL_ROOM, ""}

EdgeFrames ==
  {Login("alice")}
    \cup {Pong("alice", a, r) : a \in {"y", Null}, r \in EdgeRooms \cup {Null}}
    \cup {UpdateRoomStatus(a, r) : a \in {"y", Null}, r \in EdgeRooms}

NextEdge ==
  \/ \E c \in Conns : Connect(c)
  \/ \E c \in Conns, frame \in EdgeFrames, dt \in DelaysOf(program) :
       NumberInWindow(c) <= MaxBurst /\ Receive(c, frame, IoOk, dt)
  \/ \E c \in Conns : Close(c, IoOk)
  \/ \E r \in EdgeRooms : FireBroadcast(r, IoOk)
  \/ \E t \in timers : FireTimer(t)

SpecEdge == InitAny /\ [][NextEdge]_vars

(***************************************************************************)
(* SpecSweep: the clients of Spec, with the periodic updateColors sweep    *)
(* running at any moment between their events.                             *)
(***************************************************************************)
NextSweep ==
  \/ \E c \in Conns : Connect(c)
  \/ \E c \in Conns, frame \in RoomFrames, dt \in SlowDelays : Receive(c, frame, IoOk, dt)
  \/ \E c \in Conns : Close(c, IoOk)
  \/ \E r \in Rooms : FireBroadcast(r, IoOk)
  \/ updateColors(IoOk)

SpecSweep == Init /\ [][NextSweep]_vars

(***************************************************************************)
(* SpecSnapshot: buildRoomColorData as a function of the maps it reads.    *)
(* The directory, the cache and the file start with any content over the   *)
(* names of the model (a membership set is never stored empty), and the    *)
(* snapshot of a room is built, with the file readable or not.             *)
(***************************************************************************)
PartialMaps(keys, values) ==
  UNION {[d -> values] : d \in SUBSET keys}

RoomKeys == {getRoomUserKey(r, a) : r \in Rooms, a \in Aliases}

InitSnapshot ==
  /\ program = "part_000"
  /\ connState = [c \in Conns |-> "new"]
  /\ activeConnections = 0
  /\ idleConnections = 0
  /\ isAlive = EmptyMap
  /\ messageCounter = EmptyMap
  /\ windowElapsed = EmptyMap
  /\ sessions = EmptyMap
  /\ profilesFile \in PartialMaps(Users, Colors)
  /\ userColors \in PartialMaps(Users, Colors)
  /\ roomUsers \in PartialMaps(Rooms, SUBSET Aliases \ {{}})
  /\ usernameToProfile \in PartialMaps(RoomKeys, Users \cup {""})
  /\ connectionIds = EmptyMap
  /\ pendingBroadcasts = {}
  /\ debounceTimers = EmptyMap
  /\ lastWritten = EmptyMap
  /\ currentUser = EmptyMap
  /\ connectionRooms = EmptyMap
  /\ userConnections = <<>>
  /\ clients = EmptyMap
  /\ lastRoomBroadcastTime = EmptyMap
  /\ usersFile = InitialFile
  /\ timers = {}

\* One call of buildRoomColorData, by broadcastRoomColorData.
BuildSnapshot(roomName, io) ==
  /\ Commit(broadcastRoomColorData(Memory(OpenConns), io, roomName))
  /\ UNCHANGED <<program, connVars, rateVars, lastWritten, serverVars>>

NextSnapshot == \E r \in Rooms, io \in ReadAny : BuildSnapshot(r, io)

SpecSnapshot == InitSnapshot /\ [][NextSnapshot]_vars

(***************************************************************************)
(* SpecBeat: clients of one identity that log in, join room "r" and        *)
(* disconnect, under the heartbeat monitor; a client answers a ping or     *)
(* does not.                                                               *)
(***************************************************************************)
BeatFrames == {Login("alice"), UpdateRoomStatus("y", "r")}

NextBeat ==
  \/ \E c \in Conns : Connect(c)
  \/ \E c \in Conns, frame \in BeatFrames, dt \in SlowDelays : Receive(c, frame, IoOk, dt)
  \/ \E c \in Conns : Close(c, IoOk)
  \/ \E r \in Rooms : FireBroadcast(r, IoOk)
  \/ \E c \in Conns : OnPong(c)
  \/ Heartbeat

SpecBeat == Init /\ [][NextBeat]_vars

(***************************************************************************)
(* SpecDebounce: clients of one identity that log in, bind aliases in the  *)
(* rooms and disconnect, with timers that run: a broadcast timer that was  *)
(* set runs when its delay has passed, whatever else happens.              *)
(***************************************************************************)
DebounceFrames ==
  {Login("alice")} \cup {UpdateRoomStatus(a, r) : a \in Aliases, r \in Rooms}

NextDebounce ==
  \/ \E c \in Conns : Connect(c)
  \/ \E c \in Conns, frame \in DebounceFrames, dt \in SlowDelays :
       Receive(c, frame, IoOk, dt)
  \/ \E c \in Conns : Close(c, IoOk)
  \/ \E r \in Rooms : FireBroadcast(r, IoOk)

TimersRun == \A r \in Rooms : WF_vars(FireBroadcast(r, IoOk))

SpecDebounce == Init /\ [][NextDebounce]_vars /\ TimersRun

(***************************************************************************)
(* Vocabulary of the claims.                                               *)
(***************************************************************************)
Now == Memory(OpenConns)

membersOf(m, room) == getUsersInRoom(m, room)
ownerOf(m, room, alias) == Get(m.usernameToProfile, getRoomUserKey(room, alias))

\* The live sessions: OPEN connections that have a session.
Live(m) == {c \in m.open : Has(m.sessions, c)}

\* c's session holds the alias in the room.
Holds(m, c, room, alias) ==
  /\ c \in Live(m)
  /\ m.sessions[c].room = room
  /\ m.sessions[c].flockmodUsername = alias

\* The frames of one type the handler wrote.
SentOf(m, type) == {f \in m.sent : f.type = type}

\* The pongs and updateRoomStatus messages of Spec.
MoveFrames == {f \in RoomFrames : f.data.type \in {"pong", "updateRoomStatus"}}

MovesSession(m, out, c) ==
  \/ out.sessions[c].room # m.sessions[c].room
  \/ out.sessions[c].flockmodUsername # m.sessions[c].flockmodUsername

(***************************************************************************)
(* C1.  For every room R, the membership set of R is exactly the set of    *)
(* aliases A with a binding (R, A) -> identity, and no room has an empty   *)
(* membership entry.                                                       *)
(***************************************************************************)
C1_MembershipEqualsBindings ==
  /\ \A room \in Rooms :
       membersOf(Now, room) = {a \in Aliases : Truthy(ownerOf(Now, room, a))}
  /\ \A room \in DOMAIN roomUsers : roomUsers[room] # {}

(***************************************************************************)
(* C2.  When two live connections of one identity hold the same alias in   *)
(* the same room and one of them changes room, changes alias or            *)
(* disconnects, the (room, alias) binding stays in the directory and no    *)
(* userLeftRoom is emitted for that alias.                                 *)
(***************************************************************************)
BindingKept(out, room, alias) ==
  /\ alias \in membersOf(out, room)
  /\ Truthy(ownerOf(out, room, alias))
  /\ \A f \in SentOf(out, "userLeftRoom") : f.username # alias

SharedBinding(c1, c2) ==
  /\ c1 # c2
  /\ c1 \in Live(Now) /\ c2 \in Live(Now)
  /\ sessions[c1].username = sessions[c2].username
  /\ ValidRoom(sessions[c1].room) /\ Truthy(sessions[c1].flockmodUsername)
  /\ Holds(Now, c2, sessions[c1].room, sessions[c1].flockmodUsername)
  /\ BindingKept(Now, sessions[c1].room, sessions[c1].flockmodUsername)

C2_SharedAliasSurvivesOneLeaving ==
  \A c1 \in Conns, c2 \in Conns :
    SharedBinding(c1, c2) =>
      /\ \A frame \in MoveFrames :
           LET out == OnMessage(c1, frame, IoOk)
           IN MovesSession(Now, out, c1) =>
                BindingKept(out, sessions[c1].room, sessions[c1].flockmodUsername)
      /\ BindingKept(OnClose(c1, IoOk), sessions[c1].room, sessions[c1].flockmodUsername)

(***************************************************************************)
(* C3.  When the only live session that holds (room, alias) closes or      *)
(* leaves the room, the alias leaves the room's membership, its binding is *)
(* removed, and a userLeftRoom for the alias is sent to the room; also     *)
(* when another connection of the same identity stays in the room under    *)
(* another alias, which stays present.                                     *)
(***************************************************************************)
OnlyHolder(c) ==
  /\ c \in Live(Now)
  /\ ValidRoom(sessions[c].room) /\ Truthy(sessions[c].flockmodUsername)
  /\ sessions[c].flockmodUsername \in membersOf(Now, sessions[c].room)
  /\ \A d \in Conns \ {c} :
       ~Holds(Now, d, sessions[c].room, sessions[c].flockmodUsername)

\* The other live sessions of the room, and the aliases they hold.
Remaining(c) ==
  {d \in Live(Now) \ {c} : sessions[d].room = sessions[c].room}

AliasLeft(out, c) ==
  LET room == sessions[c].room
      alias == sessions[c].flockmodUsername
  IN /\ alias \notin membersOf(out, room)
     /\ ~Truthy(ownerOf(out, room, alias))
     /\ \A d \in Remaining(c) :
          /\ \E f \in SentOf(out, "userLeftRoom") : f.to = d /\ f.username = alias
          /\ Truthy(sessions[d].flockmodUsername)
               /\ sessions[d].flockmodUsername \in membersOf(Now, room)
               => sessions[d].flockmodUsername \in membersOf(out, room)

LeavesRoom(out, c) ==
  Has(out.sessions, c) /\ out.sessions[c].room # sessions[c].room

C3_LastHolderLeavingUnbinds ==
  \A c \in Conns :
    OnlyHolder(c) =>
      /\ \A frame \in MoveFrames :
           LET out == OnMessage(c, frame, IoOk)
           IN LeavesRoom(out, c) => AliasLeft(out, c)
      /\ AliasLeft(OnClose(c, IoOk), c)

(***************************************************************************)
(* C4.  A pong or updateRoomStatus whose alias and room equal the          *)
(* session's current alias and room changes no session and no directory    *)
(* state, schedules no broadcast and pushes nothing to the room: at most   *)
(* a direct reply goes to the sender.                                      *)
(***************************************************************************)
SameValueFrames(c) ==
  {Pong(sessions[c].username, sessions[c].flockmodUsername, sessions[c].room),
   UpdateRoomStatus(sessions[c].flockmodUsername, sessions[c].room)}

NoOpForRoom(out, c) ==
  /\ out.sessions = sessions
  /\ out.roomUsers = roomUsers
  /\ out.usernameToProfile = usernameToProfile
  /\ out.connectionIds = connectionIds
  /\ out.pendingBroadcasts = pendingBroadcasts
  /\ \A f \in out.sent : f.to = c /\ f.via = "send"

C4_SameValueIsNoOp ==
  \A c \in Conns :
    (c \in Live(Now) /\ ValidRoom(sessions[c].room)
       /\ Truthy(sessions[c].flockmodUsername)) =>
      \A frame \in SameValueFrames(c) : NoOpForRoom(OnMessage(c, frame, IoOk), c)

(***************************************************************************)
(* C10.  Every updateRoomStatus with a valid room from a logged-in         *)
(* connection is answered with a roomColorSync for that room sent to the   *)
(* sender, and when the sender has or supplies an alias the reply maps     *)
(* that alias to the colour of the sender's identity.                      *)
(***************************************************************************)
AnsweredWithSync(out, c, room) ==
  \E f \in SentOf(out, "roomColorSync") :
    /\ f.to = c /\ f.via = "send" /\ f.room = room
    /\ Truthy(out.sessions[c].flockmodUsername) =>
         /\ Has(f.colorData, out.sessions[c].flockmodUsername)
         /\ f.colorData[out.sessions[c].flockmodUsername]
              = getUserColor(out, IoOk, out.sessions[c].username)

C10_UpdateRoomStatusIsAnswered ==
  \A c \in Conns :
    c \in Live(Now) =>
      \A a \in Aliases \cup {Null}, room \in Rooms :
        AnsweredWithSync(OnMessage(c, UpdateRoomStatus(a, room), IoOk), c, room)

(***************************************************************************)
(* C5.  After setPreference{key: "color", value} from a logged-in          *)
(* connection the identity's colour (the cached one under part_000, the    *)
(* stored one under server.js) is value, and every open connection of      *)
(* every room the identity occupies is pushed a roomColorSync of that room *)
(* that shows value for the entries of the identity (the aliases it owns   *)
(* there; under server.js the identity itself); also when the room was     *)
(* broadcast less than the minimum interval ago.                           *)
(***************************************************************************)
\* The rooms in which a live session of the identity holds an alias.
OccupiedRooms(u) ==
  {sessions[c].room : c \in {x \in Live(Now) :
      /\ sessions[x].username = u
      /\ ValidRoom(sessions[x].room)
      /\ Truthy(sessions[x].flockmodUsername)}}

OwnedAliases(u, room) ==
  {a \in membersOf(Now, room) : ownerOf(Now, room, a) = u}

PushedNewColor(out, u, value, room) ==
  \A d \in Audience(Now, room) :
    \E f \in SentOf(out, "roomColorSync") :
      /\ f.to = d /\ f.via = "broadcast" /\ f.room = room
      /\ \A a \in OwnedAliases(u, room) : Has(f.colorData, a) /\ f.colorData[a] = value

SetsColor ==
  \A c \in Conns :
    c \in Live(Now) =>
      \A value \in Colors, io \in IoAny :
        LET u == sessions[c].username
            out == OnMessage(c, SetPreference("color", value), io)
        IN /\ Get(out.userColors, u) = value
           /\ \A room \in OccupiedRooms(u) : PushedNewColor(out, u, value, room)

ServerNow == ServerMemory(OpenConns)

\* server.js takes a connection with ws.currentUser for logged in.
LoggedIn == {c \in OpenConns : Truthy(Get(currentUser, c))}

ServerOccupiedRooms(u) ==
  {connectionRooms[c] :
     c \in {x \in LoggedIn : currentUser[x] = u /\ ValidRoom(Get(connectionRooms, x))}}

ServerPushedNewColor(out, u, value, room) ==
  \A d \in ServerAudience(ServerNow, room) :
    \E f \in SentOf(out, "roomColorSync") :
      /\ f.to = d /\ f.via = "broadcast" /\ f.room = room
      /\ Has(f.colorData, u) => f.colorData[u] = value

ServerSetsColor ==
  \A c \in LoggedIn, value \in Colors :
    LET u == currentUser[c]
        out == server_OnMessage(c, SetPreference("color", value))
    IN /\ Get(out.usersFile, u) = value
       /\ \A room \in ServerOccupiedRooms(u) : ServerPushedNewColor(out, u, value, room)

C5_SetPreferencePushesNewColor ==
  IF program = "part_000" THEN SetsColor ELSE ServerSetsColor

(***************************************************************************)
(* C6.  Once a colour has been written for an identity, every snapshot of  *)
(* a room in which the identity owns an alias shows that alias with the    *)
(* written colour, until the identity's next write.                        *)
(***************************************************************************)
C6_WrittenColorPersists ==
  \A u \in DOMAIN lastWritten, room \in Rooms, io \in ReadAny :
    LET snapshot == buildRoomColorData(Now, io, room)
    IN \A a \in DOMAIN snapshot.profileMap :
         snapshot.profileMap[a] = u => snapshot.colorData[a] = lastWritten[u]

(***************************************************************************)
(* C9.  A login with a non-empty string identity creates a session with    *)
(* that identity, no alias and no room, adds the connection to the         *)
(* identity's connection-set and replies loginSuccess with the identity    *)
(* and its stored colour: the default colour when none is stored (or the   *)
(* file cannot be read).                                                   *)
(***************************************************************************)
StoredColor(file, u, io) ==
  IF io.rd /\ Has(file, u) /\ Truthy(file[u]) THEN file[u] ELSE DEFAULT_COLOR

RepliesLoginSuccess(out, c, u, color) ==
  /\ \E f \in SentOf(out, "loginSuccess") :
       f.to = c /\ f.username = u /\ f.color = color
  /\ Cardinality(out.sent) = 1

LoginCreatesSession(c, u) ==
  \A io \in ReadAny :
    LET out == OnMessage(c, Login(u), io)
    IN /\ Has(out.sessions, c) /\ out.sessions[c] = NewSession(u)
       /\ Has(out.connectionIds, u) /\ c \in out.connectionIds[u]
       /\ RepliesLoginSuccess(out, c, u, StoredColor(profilesFile, u, io))

ServerLoginCreatesSession(c, u) ==
  LET out == server_OnMessage(c, Login(u))
  IN /\ Get(out.currentUser, c) = u
     /\ ~Has(out.connectionRooms, c)
     /\ c \in ConnectionsOf(out.userConnections, u)
     /\ RepliesLoginSuccess(out, c, u, StoredColor(usersFile, u, IoOk))

\* The non-empty strings a client may log in with: " " is one.
NonEmptyNames == Users \cup {" "}

InNoRoom(c) ==
  IF program = "part_000"
    THEN ~Has(sessions, c) \/ ~Truthy(sessions[c].room)
    ELSE ~Has(connectionRooms, c)

Replies(c, frame) ==
  IF program = "part_000" THEN OnMessage(c, frame, IoOk).sent
  ELSE server_OnMessage(c, frame).sent

RateLimited(c, frame, dt) ==
  LET n == NumberInWindow(c)
  IN /\ messageCounter'[c] = n
     /\ (connState'[c] = "terminated") <=> (n >= MAX_MESSAGES_PER_MINUTE + 1)
     /\ n <= MAX_MESSAGES_PER_MINUTE => connState'[c] = "open"
     /\ n = 1 => windowElapsed'[c] = Min(dt, WINDOW_MS + 1)
     /\ n >= MAX_MESSAGES_PER_MINUTE + 1 =>
          /\ Replies(c, frame) = {}
          /\ UNCHANGED <<coreVars, lastWritten>>
          /\ ServerCommit(Later(ServerMemory(OpenConns), dt))
     /\ (n <= MAX_MESSAGES_PER_MINUTE /\ Dispatched(frame)) =>
          Replies(c, frame) # {}

C7_RateLimiter ==
  [][\A c \in Conns, frame \in RateFrames, dt \in RateDelays :
       Receive(c, frame, IoOk, dt) => RateLimited(c, frame, dt)]_vars

\* Reached: the 201st message of a window has terminated the connection.
C7_Witness ==
  /\ connState[1] = "terminated"
  /\ Get(messageCounter, 1) = MAX_MESSAGES_PER_MINUTE + 1

(***************************************************************************)
(* C8.  A new connection is rejected, with status 1013, exactly when 200   *)
(* accepted connections have not yet closed; the counter equals the number *)
(* of accepted connections that have not yet closed and stays within       *)
(* 0..200; a close of an accepted connection frees one slot and a rejected *)
(* connection neither takes nor frees one.                                 *)
(***************************************************************************)
Accepted == {c \in Conns : connState[c] \in {"open", "terminated"}}

NotYetClosed == Cardinality(Accepted) + idleConnections

CounterIsExact ==
  /\ activeConnections = NotYetClosed
  /\ activeConnections \in 0 .. MAX_CONNECTIONS
  /\ \A ws \in Conns \cup {0} :
       /\ connection(ws).accepted <=> NotYetClosed # MAX_CONNECTIONS
       /\ connection(ws).sent =
            IF NotYetClosed = MAX_CONNECTIONS
              THEN {[type |-> "close", to |-> ws, via |-> "close",
                     code |-> OVERLOAD_STATUS]}
              ELSE {}
  /\ \A c \in Conns : connState[c] = "rejected" =>
       ~Has(sessions, c) /\ ~Has(currentUser, c) /\ ~Has(messageCounter, c)

SlotsAreKept ==
  /\ \A c \in Conns :
       /\ (c \in Accepted /\ connState'[c] = "closed") =>
            activeConnections' = activeConnections - 1
       /\ (connState[c] = "new" /\ connState'[c] = "rejected") =>
            activeConnections' = activeConnections
       /\ (connState[c] = "new" /\ connState'[c] = "open") =>
            activeConnections' = activeConnections + 1
       /\ connState[c] = "rejected" => connState'[c] = "rejected"
  /\ idleConnections' = idleConnections - 1 =>
       activeConnections' = activeConnections - 1

C8_ConnectionCeiling == [](CounterIsExact) /\ [][SlotsAreKept]_vars

\* Reached: the ceiling is reached and a further connection was rejected.
C8_Witness ==
  /\ activeConnections = MAX_CONNECTIONS
  /\ \E c \in Conns : connState[c] = "rejected"

(***************************************************************************)
(* C11.  A room name that is empty or the sentinel "NaN" is never the      *)
(* current room of a session (of a connection, under server.js), never a   *)
(* key of the room directory, and never the room of a roomColorSync or of  *)
(* a userLeftRoom that is sent.                                            *)
(***************************************************************************)
\* The room names that stand for "no room".
Unset(room) == room = "" \/ room = SENTINEL_ROOM

StoredRooms ==
  IF program = "part_000"
    THEN {sessions[c].room : c \in DOMAIN sessions} \cup DOMAIN roomUsers
    ELSE {connectionRooms[c] : c \in DOMAIN connectionRooms}

\* The connections whose current room is the given one.
InRoom(room) ==
  IF program = "part_000"
    THEN {c \in DOMAIN sessions : sessions[c].room = room}
    ELSE {c \in DOMAIN connectionRooms : connectionRooms[c] = room}

\* What the close handler of c writes to sockets.
CloseReplies(c) ==
  IF program = "part_000" THEN OnClose(c, IoOk).sent ELSE server_OnClose(c).sent

C11_UnsetRoomNeverStored ==
  /\ \A room \in StoredRooms : ~Unset(room)
  /\ \A c \in OpenConns, frame \in EdgeFrames :
       /\ \A f \in SentOf([sent |-> Replies(c, frame)], "roomColorSync") : ~Unset(f.room)
       /\ \A room \in EdgeRooms :
            (Unset(room) /\ c \in InRoom(room)) =>
              /\ SentOf([sent |-> Replies(c, frame)], "userLeftRoom") = {}
              /\ SentOf([sent |-> CloseReplies(c)], "userLeftRoom") = {}

(***************************************************************************)
(* C12.  A login whose identity is missing, empty or not a string, an      *)
(* updateRoomStatus whose room is missing, empty or not a string, and a    *)
(* setPreference whose key is not "color" are each answered with an error  *)
(* to the sender and change no session, connection-set, room-directory,    *)
(* preference or pending-broadcast state; an alias carried by the          *)
(* rejected message is not applied.                                        *)
(***************************************************************************)
InvalidValues == {Null, "", NonString}

InvalidFrames ==
  {Login(u) : u \in InvalidValues}
    \cup {UpdateRoomStatus(a, r) : a \in Aliases \cup {Null}, r \in InvalidValues}
    \cup {SetPreference("theme", "dark")}

\* The handler wrote one frame: an error to the sender.
RepliesError(out, c) ==
  /\ \E f \in SentOf(out, "error") : f.to = c
  /\ Cardinality(out.sent) = 1

Untouched(out) == [out EXCEPT !.sent = {}] = Now

ServerUntouched(out) == [out EXCEPT !.sent = {}] = ServerNow

C12_InvalidInputIsRejected ==
  \A c \in OpenConns, frame \in InvalidFrames :
    IF program = "part_000"
      THEN \A io \in IoAny :
             /\ RepliesError(OnMessage(c, frame, io), c)
             /\ Untouched(OnMessage(c, frame, io))
      ELSE /\ RepliesError(server_OnMessage(c, frame), c)
           /\ ServerUntouched(server_OnMessage(c, frame))

(***************************************************************************)
(* C13.  A frame that is longer than 1000, is not JSON or has an unknown   *)
(* type changes no session, connection-set, room-directory, preference or  *)
(* pending-broadcast state, is not answered, and leaves the connection     *)
(* open.                                                                   *)
(***************************************************************************)
NotAnswered ==
  \A c \in OpenConns, frame \in DroppedFrames : Replies(c, frame) = {}

\* A step that receives a dropped frame leaves the handlers' state alone.
Ignored(c, frame, dt) ==
  /\ UNCHANGED <<coreVars, lastWritten>>
  /\ ServerCommit(Later(ServerNow, dt))

DropsAndStaysOpen ==
  \A c \in Conns, frame \in DroppedFrames, dt \in RateDelays :
    Receive(c, frame, IoOk, dt) =>
      Ignored(c, frame, dt) /\ connState'[c] = "open"

C13_DroppedFrame == [](NotAnswered) /\ [][DropsAndStaysOpen]_vars

(***************************************************************************)
(* C13, amended.  The same, except that the connection stays open only     *)
(* when the frame is at most the 200th message of its window: every frame  *)
(* is counted by the rate limiter before its length is looked at, and the  *)
(* 201st is the one that terminates the connection.                        *)
(***************************************************************************)
DropsAndStaysOpenWithinLimit ==
  \A c \in Conns, frame \in DroppedFrames, dt \in RateDelays :
    Receive(c, frame, IoOk, dt) =>
      /\ Ignored(c, frame, dt)
      /\ (connState'[c] = "open") <=> (NumberInWindow(c) <= MAX_MESSAGES_PER_MINUTE)

C13_DroppedFrameAmended == [](NotAnswered) /\ [][DropsAndStaysOpenWithinLimit]_vars

\* Reached: a connection that has sent two frames in one window, both
\* dropped (it has no session), is still open.
C13_Witness ==
  /\ program = "part_000"
  /\ connState[1] = "open"
  /\ Has(messageCounter, 1) /\ messageCounter[1] = 2
  /\ ~Has(sessions, 1)

(***************************************************************************)
(* C14.  When a connection that has a session presents another identity,   *)
(* by a second login or by a pong that names another username, then        *)
(* afterwards the session's identity is the new one, the connection is in  *)
(* the new identity's connection-set and in no other one, and the          *)
(* session's room, alias and (room, alias) membership are as before.       *)
(***************************************************************************)
IdentityFrames(u) == {Login(u), Pong(u, Null, Null)}

\* The identities whose connection-set holds c.
SetsOf(m, c) == {v \in DOMAIN m.connectionIds : c \in m.connectionIds[v]}

ServerSetsOf(m, c) ==
  {m.userConnections[i].username :
     i \in {j \in 1 .. Len(m.userConnections) : c \in m.userConnections[j].connections}}

Migrated(out, c, u) ==
  /\ Has(out.sessions, c)
  /\ out.sessions[c].username = u
  /\ SetsOf(out, c) = {u}
  /\ out.sessions[c].room = sessions[c].room
  /\ out.sessions[c].flockmodUsername = sessions[c].flockmodUsername
  /\ \A room \in Rooms, a \in Aliases :
       Holds(Now, c, room, a) =>
         /\ (a \in membersOf(out, room)) <=> (a \in membersOf(Now, room))
         /\ ownerOf(out, room, a) = ownerOf(Now, room, a)

ServerMigrated(out, c, u) ==
  /\ Get(out.currentUser, c) = u
  /\ ServerSetsOf(out, c) = {u}
  /\ Get(out.connectionRooms, c) = Get(connectionRooms, c)

C14_IdentityChangeMigrates ==
  \A c \in OpenConns, u \in Users :
    IF program = "part_000"
      THEN (c \in Live(Now) /\ sessions[c].username # u) =>
             \A frame \in IdentityFrames(u), io \in ReadAny :
               Migrated(OnMessage(c, frame, io), c, u)
      ELSE (c \in LoggedIn /\ currentUser[c] # u) =>
             \A frame \in IdentityFrames(u) :
               ServerMigrated(server_OnMessage(c, frame), c, u)

(***************************************************************************)
(* C15.  Every connection that has a current room, an alias or an alias    *)
(* binding has a session with a non-empty identity, and no                 *)
(* updateRoomStatus or pong from a connection that has not logged in       *)
(* stores a room or creates a room-directory entry.                        *)
(***************************************************************************)
IdentityPrecedesRoom ==
  IF program = "part_000"
    THEN /\ \A c \in DOMAIN sessions : Truthy(sessions[c].username)
         /\ \A key \in DOMAIN usernameToProfile : Truthy(usernameToProfile[key])
    ELSE \A c \in DOMAIN connectionRooms : Truthy(Get(currentUser, c))

\* The connections that have no identity.
Anonymous ==
  IF program = "part_000" THEN {c \in OpenConns : ~Has(sessions, c)}
  ELSE OpenConns \ LoggedIn

HintFrames == {f \in EdgeFrames : f.data.type \in {"pong", "updateRoomStatus"}}

\* The handler gave the connection no room and no alias and left the
\* directory alone.
StoresNoRoom(c, frame) ==
  IF program = "part_000"
    THEN LET out == OnMessage(c, frame, IoOk)
         IN /\ Has(out.sessions, c) =>
                 /\ ~Truthy(out.sessions[c].room)
                 /\ ~Truthy(out.sessions[c].flockmodUsername)
            /\ out.roomUsers = roomUsers
            /\ out.usernameToProfile = usernameToProfile
    ELSE ~Has(server_OnMessage(c, frame).connectionRooms, c)

C15_IdentityPrecedesRoom ==
  /\ IdentityPrecedesRoom
  /\ \A c \in Anonymous, frame \in HintFrames : StoresNoRoom(c, frame)

(***************************************************************************)
(* C15, amended.  The same, except that under server.js a pong that names  *)
(* a username gives a connection without identity that identity, and then  *)
(* stores the room it carries: the room is stored for a connection that    *)
(* has just got its identity from the same pong.                           *)
(***************************************************************************)
StoresNoRoomBeforeIdentity(c, frame) ==
  IF program = "server.js" /\ frame.data.type = "pong"
    THEN LET out == server_OnMessage(c, frame)
         IN Has(out.connectionRooms, c) =>
              /\ Truthy(frame.data.username)
              /\ Get(out.currentUser, c) = frame.data.username
    ELSE StoresNoRoom(c, frame)

C15_IdentityPrecedesRoomAmended ==
  /\ IdentityPrecedesRoom
  /\ \A c \in Anonymous, frame \in HintFrames : StoresNoRoomBeforeIdentity(c, frame)

\* Reached under server.js: a connection without identity has sent a
\* message (an updateRoomStatus: a login or a pong would have given it an
\* identity) and has no room, while a connection with an identity has one.
C15_Witness ==
  \E c \in OpenConns, d \in OpenConns :
    /\ program = "server.js"
    /\ c \in Anonymous /\ Has(messageCounter, c) /\ ~Has(connectionRooms, c)
    /\ Get(currentUser, d) = "alice" /\ Get(connectionRooms, d) = "r"

(***************************************************************************)
(* C16.  For a logged-in connection a pong that carries an alias, a room   *)
(* or both leaves the session store and the room directory in the state    *)
(* in which an updateRoomStatus with the same alias and room would leave   *)
(* them, also when the hints equal the current values.                     *)
(***************************************************************************)
SameSessions(a, b) == a.sessions = b.sessions

SameDirectory(a, b) ==
  /\ a.roomUsers = b.roomUsers
  /\ a.usernameToProfile = b.usernameToProfile

ByPong(c, a, r) == OnMessage(c, Pong(sessions[c].username, a, r), IoOk)

ByUpdateRoomStatus(c, a, r) == OnMessage(c, UpdateRoomStatus(a, r), IoOk)

C16_PongActsAsUpdateRoomStatus ==
  \A c \in Live(Now), a \in Aliases \cup {Null}, r \in Rooms \cup {Null} :
    (Truthy(a) \/ Truthy(r)) =>
      /\ SameSessions(ByPong(c, a, r), ByUpdateRoomStatus(c, a, r))
      /\ SameDirectory(ByPong(c, a, r), ByUpdateRoomStatus(c, a, r))

(***************************************************************************)
(* C16, amended.  The same for a pong that carries a room, with or without *)
(* an alias; except that when the pong carries an alias and its room is    *)
(* the session's current room, the pong also writes the session's          *)
(* (room, alias) binding again.  A pong that carries an alias and no room  *)
(* changes the alias, whereas an updateRoomStatus without room is          *)
(* rejected and changes nothing.                                           *)
(***************************************************************************)
\* The memory after the session's binding was written again.
Reasserted(m, c, a, r) ==
  IF Truthy(a) /\ r = sessions[c].room
    THEN addUserToRoom(m, r, a, sessions[c].username)
    ELSE m

C16_PongActsAsUpdateRoomStatusAmended ==
  \A c \in Live(Now), a \in Aliases \cup {Null} :
    /\ \A r \in Rooms :
         /\ SameSessions(ByPong(c, a, r), ByUpdateRoomStatus(c, a, r))
         /\ SameDirectory(ByPong(c, a, r),
                          Reasserted(ByUpdateRoomStatus(c, a, r), c, a, r))
    /\ Truthy(a) =>
         /\ ByPong(c, a, Null).sessions[c].flockmodUsername = a
         /\ ByPong(c, a, Null).sessions[c].room = sessions[c].room
         /\ SameSessions(ByUpdateRoomStatus(c, a, Null), Now)
         /\ SameDirectory(ByUpdateRoomStatus(c, a, Null), Now)

\* Reached: a session holds alias "y" in room "r", so that the hints of a
\* pong can equal the current values, change the alias or change the room.
C16_Witness ==
  \E c \in Live(Now) :
    /\ Holds(Now, c, "r", "y")
    /\ "y" \in membersOf(Now, "r")
    /\ "r" \notin pendingBroadcasts

(***************************************************************************)
(* C17.  An alias A is in the membership of room R if and only if at       *)
(* least one session has room R and alias A: the (room, alias) of every    *)
(* session is in the directory, and no alias is in the directory without   *)
(* a session that holds it.                                                *)
(***************************************************************************)
\* The sessions in the store that hold the alias in the room.
HoldersOf(room, alias) ==
  {c \in DOMAIN sessions :
     sessions[c].room = room /\ sessions[c].flockmodUsername = alias}

C17_MembershipIffSession ==
  \A room \in Rooms, a \in Aliases :
    (a \in membersOf(Now, room)) <=> (HoldersOf(room, a) # {})

(***************************************************************************)
(* C18.  A state-changing event for a room (a bind, an unbind, a           *)
(* preference change) schedules a pending broadcast for the room if none   *)
(* is pending and pushes nothing by itself, so that the events of a burst  *)
(* that fall within the debounce delay are answered by one roomColorSync   *)
(* push to the room, when the timer fires.                                 *)
(***************************************************************************)
\* The room-wide pushes of the room's snapshot among the frames written.
PushesTo(out, room) ==
  {f \in SentOf(out, "roomColorSync") : f.via = "broadcast" /\ f.room = room}

\* The handler changed the membership or a binding of the room.
ChangesRoom(out, room) ==
  \/ membersOf(out, room) # membersOf(Now, room)
  \/ \E a \in Aliases : ownerOf(out, room, a) # ownerOf(Now, room, a)

\* The event is left to the debounce timer of the room.
Debounced(out, room) ==
  /\ room \in out.pendingBroadcasts
  /\ PushesTo(out, room) = {}

C18_BurstIsOnePush ==
  \A c \in Live(Now), room \in Rooms :
    /\ \A frame \in MoveFrames :
         ChangesRoom(OnMessage(c, frame, IoOk), room) =>
           Debounced(OnMessage(c, frame, IoOk), room)
    /\ ChangesRoom(OnClose(c, IoOk), room) => Debounced(OnClose(c, IoOk), room)
    /\ room \in OccupiedRooms(sessions[c].username) =>
         Debounced(OnMessage(c, SetPreference("color", "red"), IoOk), room)

(***************************************************************************)
(* C19.  Two room-wide broadcasts of the snapshot of one room never fire   *)
(* less than the minimum interval (2 s) apart, unless the later one was    *)
(* forced by a preference change that reset the room's throttle            *)
(* timestamp; a suppressed broadcast leaves the timestamp unchanged.       *)
(***************************************************************************)
ThrottleFrames ==
  {UpdateRoomStatus(a, r) : a \in Aliases \cup {Null}, r \in Rooms}
    \cup {Pong(u, a, r) : u \in Users, a \in Aliases \cup {Null}, r \in Rooms \cup {Null}}
    \cup {Login(u) : u \in Users}
    \cup {SetPreference("color", "red")}

\* part_000 keeps no time of the last broadcast: the broadcasts of one run
\* of a handler are no time apart, so a run may broadcast a room at most
\* once to each connection.
OneBroadcastPerRun(out) ==
  \A room \in Rooms, d \in Conns :
    Cardinality({f \in PushesTo(out, room) : f.to = d}) <= 1

\* The frame is a preference change that resets the timestamp of the room.
Forces(c, frame, room) ==
  /\ frame.data.type = "setPreference" /\ frame.data.key = "color"
  /\ c \in LoggedIn
  /\ Has(usersFile, currentUser[c])
  /\ room \in UserRooms(ServerNow, currentUser[c])

\* Nothing was pushed to the room and its timestamp is the one of m.
Suppressed(m, out, room) ==
  /\ PushesTo(out, room) = {}
  /\ Get(out.lastRoomBroadcastTime, room) = Get(m.lastRoomBroadcastTime, room)

\* The memory in which the callback of timer t runs.
WhenDue(t) == Later([ServerNow EXCEPT !.timers = @ \ {t}], t.delay)

ServerThrottleHolds ==
  /\ \A room \in Rooms, c \in OpenConns, frame \in ThrottleFrames :
       (Throttled(ServerNow, room) /\ ~Forces(c, frame, room)) =>
         Suppressed(ServerNow, server_OnMessage(c, frame), room)
  /\ \A t \in timers :
       Throttled(WhenDue(t), t.room) =>
         Suppressed(WhenDue(t), server_broadcastRoomColorData(WhenDue(t), t.room), t.room)
  /\ \A room \in Rooms, c \in OpenConns :
       Suppressed(ServerNow, server_OnClose(c), room)

C19_MinimumInterval ==
  IF program = "part_000"
    THEN /\ \A c \in OpenConns, frame \in ThrottleFrames :
              OneBroadcastPerRun(OnMessage(c, frame, IoOk))
         /\ \A c \in OpenConns : OneBroadcastPerRun(OnClose(c, IoOk))
    ELSE ServerThrottleHolds

(***************************************************************************)
(* C20.  After a setPreference, besides the immediate forced push, the     *)
(* delayed re-push that the preference change scheduled delivers the       *)
(* snapshot of the room once more to the connections of every room the     *)
(* identity occupies: the throttle does not suppress it.                   *)
(***************************************************************************)
\* The timer that handleSetPreference sets for the room.
Repush(room) == [room |-> room, delay |-> REPUSH_DELAY_MS]

\* The memory in which the callback of that timer runs, the delay after the
\* handler has returned out.
WhenRepushDue(out, room) ==
  Later([out EXCEPT !.timers = @ \ {Repush(room)}, !.sent = {}], REPUSH_DELAY_MS)

\* The callback pushes the snapshot of the room to each of its connections.
RepushDelivered(out, room) ==
  /\ Repush(room) \in out.timers
  /\ \A d \in ServerAudience(WhenRepushDue(out, room), room) :
       \E f \in PushesTo(server_broadcastRoomColorData(WhenRepushDue(out, room), room),
                         room) : f.to = d

C20_DelayedRepushDelivered ==
  program = "server.js" =>
    \A c \in LoggedIn :
      Has(usersFile, currentUser[c]) =>
        \A room \in UserRooms(ServerNow, currentUser[c]) :
          RepushDelivered(server_OnMessage(c, SetPreference("color", "red")), room)

(***************************************************************************)
(* C21.  On every tick of the periodic sweep, every room whose membership  *)
(* is not empty is pushed a snapshot of its current directory state,       *)
(* whatever broadcasts are pending, to every open connection whose session *)
(* is in that room, and to no connection in another room or in none.       *)
(***************************************************************************)
\* The memory after one run of updateColors.
Swept(io) ==
  BroadcastRooms(Now, io, {r \in DOMAIN roomUsers : roomUsers[r] # {}})

\* The frame is the snapshot of the room as the directory is now.
IsSnapshotOf(f, room) ==
  /\ f.colorData = buildRoomColorData(Now, IoOk, room).colorData
  /\ f.profileMap = buildRoomColorData(Now, IoOk, room).profileMap

SweepReaches(out, room) ==
  /\ \A d \in OpenConns :
       (Has(sessions, d) /\ sessions[d].room = room) <=>
         (\E f \in PushesTo(out, room) : f.to = d)
  /\ \A f \in PushesTo(out, room) : IsSnapshotOf(f, room)

C21_SweepPushesEveryRoom ==
  /\ \A room \in Rooms : membersOf(Now, room) # {} => SweepReaches(Swept(IoOk), room)
  /\ \A f \in SentOf(Swept(IoOk), "roomColorSync") :
       f.via = "broadcast" /\ Has(sessions, f.to) /\ sessions[f.to].room = f.room

\* Two rooms with members and a connection in each, while a broadcast of
\* one of them is pending.
C21_Witness ==
  /\ \E c, d \in OpenConns :
       /\ Has(sessions, c) /\ sessions[c].room = "r"
       /\ Has(sessions, d) /\ sessions[d].room = "r:x"
  /\ membersOf(Now, "r") # {} /\ membersOf(Now, "r:x") # {}
  /\ "r" \in pendingBroadcasts
  /\ PushesTo(Swept(IoOk), "r") # {} /\ PushesTo(Swept(IoOk), "r:x") # {}

(***************************************************************************)
(* C22.  The snapshot built for room R contains exactly the aliases of     *)
(* R's membership whose owning identity resolves; for each of them         *)
(* profileMap gives the owner and colorData the owner's cached colour,     *)
(* which on a miss is loaded from the preference store (the default colour *)
(* when none is stored or the store cannot be read).  An alias whose owner *)
(* does not resolve is in neither map, nor is an alias outside R's         *)
(* membership.                                                             *)
(***************************************************************************)
Resolves(room, alias) == Truthy(ownerOf(Now, room, alias))

\* The colour of the identity in the cache, after a load on a miss.
CachedColor(u, io) ==
  IF Has(userColors, u) THEN userColors[u] ELSE StoredColor(profilesFile, u, io)

SnapshotIsExact(room, io) ==
  LET data == buildRoomColorData(Now, io, room)
      cache == buildRoomColorDataCache(Now, io, room)
      shown == {a \in membersOf(Now, room) : Resolves(room, a)}
  IN /\ DOMAIN data.colorData = shown
     /\ DOMAIN data.profileMap = shown
     /\ \A a \in shown :
          /\ data.profileMap[a] = ownerOf(Now, room, a)
          /\ data.colorData[a] = CachedColor(ownerOf(Now, room, a), io)
          /\ Has(cache, ownerOf(Now, room, a))
          /\ cache[ownerOf(Now, room, a)] = data.colorData[a]
     /\ \A u \in DOMAIN userColors : Has(cache, u) /\ cache[u] = userColors[u]

C22_SnapshotIsExact ==
  \A room \in Rooms, io \in ReadAny : SnapshotIsExact(room, io)

\* A room with an alias whose owner has a stored colour and no cached one,
\* and an alias whose owner does not resolve.
C22_Witness ==
  /\ membersOf(Now, "r") = Aliases
  /\ Resolves("r", "y") /\ ~Resolves("r", "x:y")
  /\ ~Has(userColors, ownerOf(Now, "r", "y"))
  /\ StoredColor(profilesFile, ownerOf(Now, "r", "y"), IoOk) = "red"
  /\ DOMAIN buildRoomColorData(Now, IoOk, "r").colorData = {"y"}

(***************************************************************************)
(* C23.  At every heartbeat tick each connection that has not answered the *)
(* ping of the previous tick is terminated, and each other connection has  *)
(* its liveness flag cleared and is pinged again; a connection that        *)
(* answers every ping before the next tick is never terminated by the      *)
(* monitor; a terminated connection goes through the close cleanup of a    *)
(* normal disconnect.                                                      *)
(***************************************************************************)
\* The flag says whether the last ping was answered: a pong sets it, only a
\* tick clears it, and a connection starts with it set.
FlagFollowsPong ==
  \A c \in Conns :
    /\ OnPong(c) => isAlive'[c] = TRUE
    /\ (connState[c] = "new" /\ connState'[c] = "open") => isAlive'[c] = TRUE
    /\ (Has(isAlive, c) /\ isAlive[c] /\ Has(isAlive', c) /\ ~isAlive'[c]) => Heartbeat

TickTerminatesTheSilent ==
  Heartbeat =>
    \A c \in OpenConns :
      IF isAlive[c] THEN connState'[c] = "open" /\ isAlive'[c] = FALSE
      ELSE connState'[c] = "terminated"

\* Nothing but the tick that finds the flag cleared terminates a connection.
OnlyTheSilentAreTerminated ==
  \A c \in OpenConns :
    connState'[c] = "terminated" => Heartbeat /\ ~isAlive[c]

\* The close of a terminated connection is the close of an open one.
TerminatedIsCleanedUp ==
  \A c \in Conns :
    (connState[c] = "terminated" /\ connState'[c] # "terminated") =>
      /\ connState'[c] = "closed"
      /\ activeConnections' = activeConnections - 1
      /\ sessions' = OnClose(c, IoOk).sessions
      /\ roomUsers' = OnClose(c, IoOk).roomUsers
      /\ usernameToProfile' = OnClose(c, IoOk).usernameToProfile
      /\ connectionIds' = OnClose(c, IoOk).connectionIds
      /\ ~Has(sessions', c)

C23_Heartbeat ==
  /\ [][FlagFollowsPong]_vars
  /\ [][TickTerminatesTheSilent]_vars
  /\ [][OnlyTheSilentAreTerminated]_vars
  /\ [][TerminatedIsCleanedUp]_vars

\* The monitor has terminated a connection that is in room "r", and has
\* pinged another one that is still open.
C23_Witness ==
  /\ connState[1] = "terminated"
  /\ Has(sessions, 1) /\ sessions[1].room = "r"
  /\ connState[2] = "open" /\ ~isAlive[2]

(***************************************************************************)
(* C24.  At most one broadcast is pending for a room at any instant, and   *)
(* every pending broadcast eventually fires, once, if timers run: when it  *)
(* fires its marker is cleared and a roomColorSync is pushed to the        *)
(* connections of the room, and a later event can schedule a new one; no   *)
(* message and no close removes a pending broadcast without firing it.     *)
(***************************************************************************)
\* One timer backs the marker of a room, and no timer is set without one.
OnePendingPerRoom ==
  \A r \in Rooms :
    TimersSet(Now, r) = (IF r \in pendingBroadcasts THEN 1 ELSE 0)

\* What the firing of the pending broadcast of the room leaves.
FiringClearsAndPushes ==
  \A r \in pendingBroadcasts :
    LET out == BroadcastTimer(Now, IoOk, r)
    IN /\ r \notin out.pendingBroadcasts
       /\ TimersSet(out, r) = 0
       /\ \A d \in Audience(Now, r) : \E f \in PushesTo(out, r) : f.to = d
       /\ r \in scheduleRoomBroadcast(out, r).pendingBroadcasts
       /\ TimersSet(scheduleRoomBroadcast(out, r), r) = 1

\* A marker goes away only in the step that runs its timer.
OnlyFiringClears ==
  \A r \in Rooms :
    (r \in pendingBroadcasts /\ r \notin pendingBroadcasts') => FireBroadcast(r, IoOk)

EveryPendingFires ==
  \A r \in Rooms : (r \in pendingBroadcasts) ~> (r \notin pendingBroadcasts)

C24_PendingBroadcastFiresOnce ==
  /\ [](OnePendingPerRoom /\ FiringClearsAndPushes)
  /\ [][OnlyFiringClears]_vars
  /\ EveryPendingFires

\* A broadcast is pending for a room in which a connection is, and another
\* bind in the room asks for it again.
C24_Witness ==
  /\ "r" \in pendingBroadcasts
  /\ \E c \in OpenConns : Has(sessions, c) /\ sessions[c].room = "r"
  /\ TimersSet(addUserToRoom(Now, "r", "y", "alice"), "r") = 1
  /\ PushesTo(BroadcastTimer(Now, IoOk, "r"), "r") # {}

(***************************************************************************)
(* C25.  After a connection closes it has no session, it is in no          *)
(* identity's connection-set (the identities it used before a re-login     *)
(* included) and no identity is left with an empty connection-set; in      *)
(* every reachable state a connection is in the connection-set of an       *)
(* identity only if it is open and that identity is its session's.         *)
(***************************************************************************)
\* The socket exists: its close handler has not run.
NotClosed(c) == connState[c] \in {"open", "terminated"}

SetsAreOfLiveSessions ==
  IF program = "part_000"
    THEN \A u \in DOMAIN connectionIds :
           /\ connectionIds[u] # {}
           /\ \A c \in connectionIds[u] :
                NotClosed(c) /\ Has(sessions, c) /\ sessions[c].username = u
    ELSE \A i \in 1 .. Len(userConnections) :
           /\ userConnections[i].connections # {}
           /\ \A c \in userConnections[i].connections :
                NotClosed(c) /\ Get(currentUser, c) = userConnections[i].username

ClosedIsForgotten(c) ==
  IF program = "part_000"
    THEN /\ ~Has(OnClose(c, IoOk).sessions, c)
         /\ SetsOf(OnClose(c, IoOk), c) = {}
         /\ \A u \in DOMAIN OnClose(c, IoOk).connectionIds :
              OnClose(c, IoOk).connectionIds[u] # {}
    ELSE /\ ~Has(server_OnClose(c).currentUser, c)
         /\ ~Has(server_OnClose(c).connectionRooms, c)
         /\ ServerSetsOf(server_OnClose(c), c) = {}
         /\ \A i \in 1 .. Len(server_OnClose(c).userConnections) :
              server_OnClose(c).userConnections[i].connections # {}

C25_ClosedConnectionIsForgotten ==
  /\ SetsAreOfLiveSessions
  /\ \A c \in Conns : NotClosed(c) => ClosedIsForgotten(c)

(***************************************************************************)
(* C26.  Whenever no connection has a live session, the room directory is  *)
(* empty: no room has a membership entry and no (room, alias) binding      *)
(* remains, so that the periodic sweep has nothing to broadcast; whatever  *)
(* the order of the logins, alias changes, room changes and closes, with   *)
(* several connections of one identity in one room under different aliases *)
(* included.                                                               *)
(***************************************************************************)
NoLiveSession == \A c \in Conns : ~Has(sessions, c)

DirectoryIsEmpty ==
  /\ roomUsers = EmptyMap
  /\ usernameToProfile = EmptyMap
  /\ {r \in DOMAIN roomUsers : roomUsers[r] # {}} = {}

C26_DirectoryEmptiesWithSessions ==
  NoLiveSession => DirectoryIsEmpty

(***************************************************************************)
(* C27.  A setPreference by identity U changes only U's colour: the cached *)
(* and the persisted colour of every other identity, all sessions, all     *)
(* connection-sets and the room directory are as before, also when the     *)
(* read of the preference store inside the write fails.                    *)
(***************************************************************************)
OthersKeepColor(out, u) ==
  \A v \in Users \ {u} :
    /\ Get(out.userColors, v) = Get(userColors, v)
    /\ Get(out.profilesFile, v) = Get(profilesFile, v)

RestIsKept(out) ==
  /\ out.sessions = sessions
  /\ out.connectionIds = connectionIds
  /\ out.roomUsers = roomUsers
  /\ out.usernameToProfile = usernameToProfile

ChangesOnlyOwnColor(c, io) ==
  LET out == OnMessage(c, SetPreference("color", "red"), io)
  IN OthersKeepColor(out, sessions[c].username) /\ RestIsKept(out)

C27_SetPreferenceChangesOnlyOwnColor ==
  program = "part_000" =>
    \A c \in OpenConns, io \in IoAny :
      Has(sessions, c) => ChangesOnlyOwnColor(c, io)

====
